---------------------------- MODULE Spec2Model ----------------------------
(***************************************************************************)
(* A model of the context-processing core of the json-ld crate:            *)
(*   - Container / ContainerType        (src/src/syntax/container.rs)      *)
(*   - ProcessingStack, LocalContextObject, process_context, define and    *)
(*     expand_iri                       (src/src/context/processing.rs)    *)
(*                                                                         *)
(* process_context, define and expand_iri are mutually recursive async     *)
(* functions.  They are modelled as one state machine over an explicit     *)
(* call stack: every frame holds the arguments and locals of one call and  *)
(* a program counter naming the point where the call resumes.  One action  *)
(* runs the code from a resume point up to the next call, loader await or  *)
(* return.                                                                 *)
(*                                                                         *)
(* Strings are sequences of one-character strings, so that the code's      *)
(* find(':'), split_at, starts_with, push_str ... are computed and not     *)
(* assumed.                                                                *)
(***************************************************************************)
EXTENDS Naturals, Sequences, FiniteSets, TLC

VARIABLES
    stack,        \* call stack of process_context / define / expand_iri frames
    ret,          \* value returned by the call that returned last
    warnings,     \* the warnings sink (Vec<Loc<Warning>>), kinds and values
    loads,        \* URLs handed to loader.load_context so far, in order
    container,    \* a Container value being built with Container::add
    adds,         \* the Container::add calls so far: argument and result
    merged_objects, \* LocalContextObject.objects: the merged objects, in order
    iter_entries,   \* MergedObjectIter.entries: what is left of each object's iterator
    yielded,      \* the items MergedObjectIter::next has returned so far
    literal,      \* the arguments of a call of expand_literal
    expanded,     \* what that call has returned and the warnings it has raised
    compacted_output, \* the document embed_context is called on (self)
    embedding,    \* the context given to embed_context, and what the call returned
    no_loader,    \* the NoLoader value
    load_attempts, \* the calls of NoLoader::load_in so far: URL and result
    properties,   \* a Properties value: property |-> multiset of objects
    last_call,    \* the last call on the Properties value: method and arguments
    arcs,         \* the StackNode values allocated so far (Arc<StackNode>)
    heads,        \* the ProcessingStack values: the head of each, 0 for None
    stack_calls   \* the calls of push and clone so far, with what push returned

vars == <<stack, ret, warnings, loads, container, adds, merged_objects, iter_entries, yielded,
          literal, expanded, compacted_output, embedding, no_loader, load_attempts,
          properties, last_call, arcs, heads, stack_calls>>

ctxVars == <<stack, ret, warnings, loads>>
containerVars == <<container, adds>>
overlayVars == <<merged_objects, iter_entries, yielded>>
literalVars == <<literal, expanded>>
embedVars == <<compacted_output, embedding>>
loaderVars == <<no_loader, load_attempts>>
propertiesVars == <<properties, last_call>>
stackVars == <<arcs, heads, stack_calls>>

\* The variables of a component that a run of another component leaves alone.
CtxIdle == stack = <<>> /\ ret = <<>> /\ warnings = <<>> /\ loads = <<>>
ContainerIdle == container = "None" /\ adds = <<>>
OverlayIdle == merged_objects = <<>> /\ iter_entries = <<>> /\ yielded = <<>>
LiteralIdle == literal = <<>> /\ expanded = <<>>
EmbedIdle == compacted_output = <<>> /\ embedding = <<>>
LoaderIdle == no_loader = <<>> /\ load_attempts = <<>>
PropertiesIdle == properties = <<>> /\ last_call = <<>>
StackIdle == arcs = <<>> /\ heads = <<>> /\ stack_calls = <<>>

\* A run of component `part`: the others stay as they are.
IdleExcept(part) ==
    /\ part # "context" => CtxIdle
    /\ part # "container" => ContainerIdle
    /\ part # "overlay" => OverlayIdle
    /\ part # "literal" => LiteralIdle
    /\ part # "embed" => EmbedIdle
    /\ part # "loader" => LoaderIdle
    /\ part # "properties" => PropertiesIdle
    /\ part # "stack" => StackIdle

OnlyChanges(part) ==
    /\ part # "context" => UNCHANGED ctxVars
    /\ part # "container" => UNCHANGED containerVars
    /\ part # "overlay" => UNCHANGED overlayVars
    /\ part # "literal" => UNCHANGED literalVars
    /\ part # "embed" => UNCHANGED embedVars
    /\ part # "loader" => UNCHANGED loaderVars
    /\ part # "properties" => UNCHANGED propertiesVars
    /\ part # "stack" => UNCHANGED stackVars

---------------------------------------------------------------------------
(* Bounds of the model.                                                    *)

\* Longest call stack the model follows (frames of all three functions).
MaxFrames == 16

\* The depth cap the specification asks of the remote-contexts stack; the
\* code sets none.  Remote context chains of SpecDepthCap + 1 documents are
\* part of the inputs.
SpecDepthCap == 3

\* Number of Container::add calls on one container.
MaxAdds == 4

---------------------------------------------------------------------------
(* Option<T> and small helpers.                                            *)

None == [k |-> "none", v |-> <<>>]
Some(x) == [k |-> "some", v |-> x]
IsSome(o) == o.k = "some"
IsNone(o) == o.k = "none"

Front(s) == SubSeq(s, 1, Len(s) - 1)

\* str.find(c): index of the first occurrence of c, 0 when absent.
Find(s, c) ==
    IF \E i \in 1..Len(s) : s[i] = c
    THEN CHOOSE i \in 1..Len(s) : s[i] = c /\ \A j \in 1..(i - 1) : s[j] # c
    ELSE 0

\* str.rfind(c): index of the last occurrence of c, 0 when absent.
RFind(s, c) ==
    IF \E i \in 1..Len(s) : s[i] = c
    THEN CHOOSE i \in 1..Len(s) : s[i] = c /\ \A j \in (i + 1)..Len(s) : s[j] # c
    ELSE 0

Contains(s, c) == \E i \in 1..Len(s) : s[i] = c

StartsWith(s, p) == Len(s) >= Len(p) /\ SubSeq(s, 1, Len(p)) = p

---------------------------------------------------------------------------
(* Keywords (syntax::Keyword, is_keyword, is_keyword_like).                *)

\* Keyword: the closed set of keywords, by variant, with into_str().
Keyword ==
    [ Context |-> <<"@","c","o","n","t","e","x","t">>,
      Id |-> <<"@","i","d">>,
      Type |-> <<"@","t","y","p","e">>,
      Value |-> <<"@","v","a","l","u","e">>,
      Language |-> <<"@","l","a","n","g","u","a","g","e">>,
      Direction |-> <<"@","d","i","r","e","c","t","i","o","n">>,
      Graph |-> <<"@","g","r","a","p","h">>,
      List |-> <<"@","l","i","s","t">>,
      Set |-> <<"@","s","e","t">>,
      Index |-> <<"@","i","n","d","e","x">>,
      Container |-> <<"@","c","o","n","t","a","i","n","e","r">>,
      Vocab |-> <<"@","v","o","c","a","b">>,
      Base |-> <<"@","b","a","s","e">>,
      Reverse |-> <<"@","r","e","v","e","r","s","e">>,
      Nest |-> <<"@","n","e","s","t">>,
      Prefix |-> <<"@","p","r","e","f","i","x">>,
      Propagate |-> <<"@","p","r","o","p","a","g","a","t","e">>,
      Protected |-> <<"@","p","r","o","t","e","c","t","e","d">>,
      Import |-> <<"@","i","m","p","o","r","t">>,
      Version |-> <<"@","v","e","r","s","i","o","n">>,
      Included |-> <<"@","i","n","c","l","u","d","e","d">>,
      Json |-> <<"@","j","s","o","n">>,
      None |-> <<"@","n","o","n","e">>,
      Any |-> <<"@","a","n","y">> ]

Keywords == {Keyword[variant] : variant \in DOMAIN Keyword}

Alpha ==
    {"a","b","c","d","e","f","g","h","i","j","k","l","m",
     "n","o","p","q","r","s","t","u","v","w","x","y","z"}

\* is_keyword(str): str is one of the keywords.
is_keyword(s) == s \in Keywords

\* is_keyword_like(str): "@" followed by one or more letters.
is_keyword_like(s) ==
    /\ Len(s) > 1
    /\ s[1] = "@"
    /\ \A i \in 2..Len(s) : s[i] \in Alpha

---------------------------------------------------------------------------
(* IRIs, IRI references and blank node identifiers (iref, BlankId).        *)

\* IriRef::new(str) succeeds: no character that an IRI reference excludes.
IsIriRef(s) == \A i \in 1..Len(s) : s[i] \notin {" ", "<", ">"}

\* Iri::new(str) succeeds: an IRI reference that starts with a scheme.
IsIri(s) ==
    /\ IsIriRef(s)
    /\ Find(s, ":") > 1
    /\ \A i \in 1..(Find(s, ":") - 1) : s[i] \in Alpha

\* BlankId::try_from(str) succeeds: the string starts with "_:".
IsBlankId(s) == StartsWith(s, <<"_", ":">>)

\* IriRef::resolved(base): an absolute reference stands for itself, a
\* relative one replaces what follows the last "/" of the base.
Resolved(ref, base) ==
    IF IsIri(ref) THEN ref
    ELSE IF RFind(base, "/") > 0
         THEN SubSeq(base, 1, RFind(base, "/")) \o ref
         ELSE base \o ref

\* resolve_iri(iri_ref, base_iri): Option<IriBuf>.
resolve_iri(iri_ref, base_iri) ==
    IF IsSome(base_iri) THEN Some(Resolved(iri_ref, base_iri.v))
    ELSE IF IsIri(iri_ref) THEN Some(iri_ref) ELSE None

---------------------------------------------------------------------------
(* Terms: Null | Keyword(k) | Ref(Id(iri) | Blank(label) | Invalid(str)).  *)

TermNull == [k |-> "null", v |-> <<>>]
TermKeyword(kw) == [k |-> "keyword", v |-> kw]
TermIri(iri) == [k |-> "iri", v |-> iri]
TermBlank(label) == [k |-> "blank", v |-> label]
TermInvalid(s) == [k |-> "invalid", v |-> s]

IsRef(t) == t.k \in {"iri", "blank", "invalid"}
\* Reference::is_valid
IsValidRef(t) == t.k \in {"iri", "blank"}

\* Term::as_str / Reference::as_str: the text of a reference.
TermStr(t) == IF t.k = "blank" THEN <<"_", ":">> \o t.v ELSE t.v

---------------------------------------------------------------------------
(* JSON values (generic_json): every value is a record [k, v].  Numbers    *)
(* are held in tenths, so that 1.1 is JNum(11).  An object is the sequence *)
(* of its entries, in the order its iterator yields them.                  *)

JNull == [k |-> "null", v |-> <<>>]
JStr(s) == [k |-> "string", v |-> s]
JBool(b) == [k |-> "bool", v |-> b]
JNum(n) == [k |-> "number", v |-> n]
JArr(a) == [k |-> "array", v |-> a]
JObj(e) == [k |-> "object", v |-> e]
Entry(key, val) == [key |-> key, val |-> val]

\* object.get(key)
ObjGet(entries, key) ==
    IF \E i \in 1..Len(entries) : entries[i].key = key
    THEN Some(entries[CHOOSE i \in 1..Len(entries) : entries[i].key = key].val)
    ELSE None

\* object.contains(key)
ObjHas(entries, key) == \E i \in 1..Len(entries) : entries[i].key = key

\* util::as_array: an array gives its items, any other value itself alone.
as_array(json) == IF json.k = "array" THEN json.v ELSE <<json>>

---------------------------------------------------------------------------
(* LocalContextObject: the importing object merged over the imported one.  *)
(* `objects` is the Vec of objects, oldest first.                          *)

\* LocalContextObject::new
LocalContextObject_new(object) == <<object>>

\* LocalContextObject::merge_with
merge_with(objects, object) == Append(objects, object)

\* LocalContextObject::get: the last merged object that has the key wins.
RECURSIVE LocalContextObject_getFrom(_, _, _)
LocalContextObject_getFrom(objects, key, n) ==
    IF n = 0 THEN None
    ELSE IF ObjHas(objects[n], key) THEN ObjGet(objects[n], key)
    ELSE LocalContextObject_getFrom(objects, key, n - 1)

LocalContextObject_get(objects, key) ==
    LocalContextObject_getFrom(objects, key, Len(objects))

\* MergedObjectIter::next, run to exhaustion: the entries of objects[n..],
\* each object's entries in turn, skipping an entry whose key some later
\* object contains.
RECURSIVE MergedObjectIter(_, _)
MergedObjectIter(objects, n) ==
    IF n > Len(objects) THEN <<>>
    ELSE LET overshadowed(e) ==
                 /\ Len(objects) > 1
                 /\ \E m \in (n + 1)..Len(objects) : ObjHas(objects[m], e.key)
         IN  SelectSeq(objects[n], LAMBDA e : ~overshadowed(e))
                 \o MergedObjectIter(objects, n + 1)

\* LocalContextObject::iter
LocalContextObject_iter(objects) == MergedObjectIter(objects, 1)

---------------------------------------------------------------------------
(* ContainerType and Container (syntax/container.rs).                      *)

ContainerTypes == {"Graph", "Id", "Index", "Language", "List", "Set", "Type"}


\* impl TryFrom<&str> for ContainerType
ContainerType_try_from(s) ==
    CASE s = Keyword.Graph -> Some("Graph")
      [] s = Keyword.Id -> Some("Id")
      [] s = Keyword.Index -> Some("Index")
      [] s = Keyword.Language -> Some("Language")
      [] s = Keyword.List -> Some("List")
      [] s = Keyword.Set -> Some("Set")
      [] s = Keyword.Type -> Some("Type")
      [] OTHER -> None

\* Container::as_slice, as the set of the slice's members.
as_slice(c) ==
    CASE c = "None" -> {}
      [] c = "Graph" -> {"Graph"}
      [] c = "Id" -> {"Id"}
      [] c = "Index" -> {"Index"}
      [] c = "Language" -> {"Language"}
      [] c = "List" -> {"List"}
      [] c = "Set" -> {"Set"}
      [] c = "Type" -> {"Type"}
      [] c = "GraphSet" -> {"Graph", "Set"}
      [] c = "GraphId" -> {"Graph", "Id"}
      [] c = "GraphIndex" -> {"Graph", "Index"}
      [] c = "IdSet" -> {"Id", "Set"}
      [] c = "IndexSet" -> {"Index", "Set"}
      [] c = "LanguageSet" -> {"Language", "Set"}
      [] c = "SetType" -> {"Type", "Set"}
      [] c = "GraphIdSet" -> {"Graph", "Id", "Set"}
      [] c = "GraphIndexSet" -> {"Graph", "Index", "Set"}

\* Container::contains
Container_contains(c, t) == t \in as_slice(c)

\* Container::with: Some(container) or None, one line per match arm.
Container_with(self, c) ==
    CASE self = "None" -> Some(c)
      [] self = "Graph" /\ c = "Graph" -> Some(self)
      [] self = "Graph" /\ c = "Set" -> Some("GraphSet")
      [] self = "Graph" /\ c = "Id" -> Some("GraphId")
      [] self = "Graph" /\ c = "Index" -> Some("GraphIndex")
      [] self = "Id" /\ c = "Id" -> Some(self)
      [] self = "Id" /\ c = "Graph" -> Some("GraphId")
      [] self = "Id" /\ c = "Set" -> Some("IdSet")
      [] self = "Index" /\ c = "Index" -> Some(self)
      [] self = "Index" /\ c = "Graph" -> Some("GraphIndex")
      [] self = "Index" /\ c = "Set" -> Some("IndexSet")
      [] self = "Language" /\ c = "Language" -> Some(self)
      [] self = "Language" /\ c = "Set" -> Some("LanguageSet")
      [] self = "List" /\ c = "List" -> Some(self)
      [] self = "Set" /\ c = "Set" -> Some(self)
      [] self = "Set" /\ c = "Graph" -> Some("GraphSet")
      [] self = "Set" /\ c = "Id" -> Some("IdSet")
      [] self = "Set" /\ c = "Index" -> Some("IndexSet")
      [] self = "Set" /\ c = "Language" -> Some("LanguageSet")
      [] self = "Set" /\ c = "Type" -> Some("SetType")
      [] self = "Type" /\ c = "Type" -> Some(self)
      [] self = "Type" /\ c = "Set" -> Some("SetType")
      [] self = "GraphSet" /\ c = "Graph" -> Some(self)
      [] self = "GraphSet" /\ c = "Set" -> Some(self)
      [] self = "GraphSet" /\ c = "Id" -> Some("GraphIdSet")
      [] self = "GraphSet" /\ c = "Index" -> Some("GraphIdSet")
      [] self = "GraphId" /\ c = "Graph" -> Some(self)
      [] self = "GraphId" /\ c = "Id" -> Some(self)
      [] self = "GraphId" /\ c = "Set" -> Some("GraphIdSet")
      [] self = "GraphIndex" /\ c = "Graph" -> Some(self)
      [] self = "GraphIndex" /\ c = "Index" -> Some(self)
      [] self = "GraphIndex" /\ c = "Set" -> Some("GraphIndexSet")
      [] self = "IdSet" /\ c = "Id" -> Some(self)
      [] self = "IdSet" /\ c = "Set" -> Some(self)
      [] self = "IdSet" /\ c = "Graph" -> Some("GraphIdSet")
      [] self = "IndexSet" /\ c = "Index" -> Some(self)
      [] self = "IndexSet" /\ c = "Set" -> Some(self)
      [] self = "IndexSet" /\ c = "Graph" -> Some("GraphIndexSet")
      [] self = "LanguageSet" /\ c = "Language" -> Some(self)
      [] self = "LanguageSet" /\ c = "Set" -> Some(self)
      [] self = "SetType" /\ c = "Set" -> Some(self)
      [] self = "SetType" /\ c = "Type" -> Some(self)
      [] self = "GraphIdSet" /\ c = "Graph" -> Some(self)
      [] self = "GraphIdSet" /\ c = "Id" -> Some(self)
      [] self = "GraphIdSet" /\ c = "Set" -> Some(self)
      [] self = "GraphIndexSet" /\ c = "Graph" -> Some(self)
      [] self = "GraphIndexSet" /\ c = "Index" -> Some(self)
      [] self = "GraphIndexSet" /\ c = "Set" -> Some(self)
      [] OTHER -> None

\* Container::add that empties the container when the type cannot be added.
Container_addClearing(self, c) ==
    LET w == Container_with(self, c)
    IN  IF IsSome(w) THEN [ok |-> TRUE, container |-> w.v]
        ELSE [ok |-> FALSE, container |-> "None"]

\* Container::add: [ok |-> the returned bool, container |-> *self after].
Container_add(self, c) ==
    LET w == Container_with(self, c)
    IN  IF IsSome(w) THEN [ok |-> TRUE, container |-> w.v]
        ELSE [ok |-> FALSE, container |-> self]

---------------------------------------------------------------------------
(* Term definitions and active contexts (the Context / ContextMut traits).  *)

Ltr == <<"l","t","r">>
Rtl == <<"r","t","l">>

\* Nullable<T>
NullableNull == [k |-> "null", v |-> <<>>]
NullableSome(x) == [k |-> "some", v |-> x]

\* syntax::Type: Id | Vocab | Json | None | Ref(T), from an expanded term
\* (impl TryFrom<Term<T>> for Type<T>).
TypeFromTerm(t) ==
    CASE t.k = "keyword" /\ t.v = Keyword.Id -> Some([k |-> "Id", v |-> <<>>])
      [] t.k = "keyword" /\ t.v = Keyword.Vocab -> Some([k |-> "Vocab", v |-> <<>>])
      [] t.k = "keyword" /\ t.v = Keyword.Json -> Some([k |-> "Json", v |-> <<>>])
      [] t.k = "keyword" /\ t.v = Keyword.None -> Some([k |-> "None", v |-> <<>>])
      [] t.k = "iri" -> Some([k |-> "Ref", v |-> t.v])
      [] OTHER -> None

\* TermDefinition { protected, ..Default::default() }
DefaultDefinition(protected) ==
    [value |-> None, prefix |-> FALSE, protected |-> protected,
     reverse_property |-> FALSE, typ |-> None, language |-> None,
     direction |-> None, container |-> "None", index |-> None,
     nest |-> None, context |-> None, base_url |-> None]

\* impl PartialEq for TermDefinition: every field but `protected`.
DefinitionEq(d1, d2) ==
    [d1 EXCEPT !.protected = FALSE] = [d2 EXCEPT !.protected = FALSE]

\* Context::new(base_iri): no definition, no vocabulary, no default; the
\* base IRI and the original base URL are both base_iri.
Context_new(base_iri) ==
    [definitions |-> <<>>, base_iri |-> base_iri,
     original_base_url |-> base_iri, vocabulary |-> None,
     default_language |-> None, default_base_direction |-> None,
     previous_context |-> None]

\* Context::get(term): Option<&TermDefinition>
Context_get(ctx, term) ==
    IF term \in DOMAIN ctx.definitions THEN Some(ctx.definitions[term]) ELSE None

\* ContextMut::set(term, definition), the context afterwards.  The previous
\* definition, which set returns, is Context_get before the call.
Context_set(ctx, term, definition) ==
    IF IsSome(definition)
    THEN [ctx EXCEPT !.definitions =
              [t \in (DOMAIN ctx.definitions) \cup {term} |->
                  IF t = term THEN definition.v ELSE ctx.definitions[t]]]
    ELSE [ctx EXCEPT !.definitions =
              [t \in (DOMAIN ctx.definitions) \ {term} |-> ctx.definitions[t]]]

\* has_protected_items
has_protected_items(active_context) ==
    \E t \in DOMAIN active_context.definitions :
        active_context.definitions[t].protected

\* ProcessingOptions
Options(mode, override, propagate) ==
    [processing_mode |-> mode, override_protected |-> override,
     propagate |-> propagate]

\* ProcessingOptions::with_override / with_no_override
with_override(options) == [options EXCEPT !.override_protected = TRUE]
with_no_override(options) == [options EXCEPT !.override_protected = FALSE]

---------------------------------------------------------------------------
(* ProcessingStack: the URLs of the remote contexts being loaded, the head *)
(* last.  A clone shares the frames, which are never changed.              *)

\* ProcessingStack::new
ProcessingStack_new == <<>>

\* ProcessingStack::is_empty
ProcessingStack_is_empty(s) == Len(s) = 0

\* ProcessingStack::cycle, through StackNode::contains
ProcessingStack_cycle(s, url) == \E i \in 1..Len(s) : s[i] = url

\* ProcessingStack::push: [ok |-> the returned bool, stack |-> self after].
ProcessingStack_push(s, url) ==
    IF ProcessingStack_cycle(s, url)
    THEN [ok |-> FALSE, stack |-> s]
    ELSE [ok |-> TRUE, stack |-> Append(s, url)]

---------------------------------------------------------------------------
(* Results, warnings and the machine the operators below transform.        *)

Ok(x) == [k |-> "ok", v |-> x]
Err(code) == [k |-> "err", v |-> code]
NoRet == [k |-> "none", v |-> <<>>]
Unit == <<>>

Warning(kind, value) == [kind |-> kind, value |-> value]

\* A machine is the part of the state the three functions work on.
Machine(s, r, w, l) == [stack |-> s, ret |-> r, warnings |-> w, loads |-> l]

Top(M) == M.stack[Len(M.stack)]

\* The frame of the process_context call whose `result` and `defined` the
\* running define / expand_iri calls borrow: the innermost one.
OwnerIndex(s) ==
    CHOOSE i \in 1..Len(s) :
        /\ s[i].fn = "process_context"
        /\ \A j \in (i + 1)..Len(s) : s[j].fn # "process_context"

Owner(M) == M.stack[OwnerIndex(M.stack)]

\* return r: the frame is dropped and the caller resumes with r.
Return(M, r) == [M EXCEPT !.stack = Front(M.stack), !.ret = r]

\* The running frame's locals replaced by those of f.
SetTop(M, f) == [M EXCEPT !.stack[Len(M.stack)] = f]

\* The running frame goes on at the stretch of code named `label`.
Go(label, M) == [M EXCEPT !.stack[Len(M.stack)].pc = label]

\* callee(...).await: the running frame will resume at `resume`, the
\* callee's frame runs next.
Call(M, resume, frame) ==
    [M EXCEPT !.stack = Append([M.stack EXCEPT ![Len(M.stack)].pc = resume], frame),
              !.ret = NoRet]

\* warnings.push(...)
Warn(M, kind, value) ==
    [M EXCEPT !.warnings = Append(M.warnings, Warning(kind, value))]

\* The borrowed active context (`result` of the owner) and `defined` map.
ActiveContext(M) == Owner(M).result
Defined(M) == Owner(M).defined
SetActiveContext(M, ctx) == [M EXCEPT !.stack[OwnerIndex(M.stack)].result = ctx]
SetDefined(M, term, b) ==
    [M EXCEPT !.stack[OwnerIndex(M.stack)].defined =
        [t \in (DOMAIN Defined(M)) \cup {term} |->
            IF t = term THEN b ELSE Defined(M)[t]]]

---------------------------------------------------------------------------
(* Call frames.                                                            *)

\* A call of process_context.  `context` is the LocalContextObject of the
\* object item being processed, `keys` its iter() and j the position of the
\* for loop over it; `pending` is the IRI handed to the loader.  `commits`
\* records, for the current object item, each term whose definition was
\* set in the active context, in order (a history of the calls of
\* active_context.set(term, Some(definition))).  `history` records the
\* value of `result` at the start of each round of the loop over the items
\* done so far: history[n] is `result` before the n-th item.
ProcessContextFrame(active_context, local_context, remote_contexts, base_url, options) ==
    [fn |-> "process_context", pc |-> "start",
     active_context |-> active_context, local_context |-> local_context,
     remote_contexts |-> remote_contexts, base_url |-> base_url,
     options |-> options,
     result |-> active_context, items |-> <<>>, i |-> 1,
     context |-> <<>>, defined |-> <<>>, protected |-> FALSE,
     keys |-> <<>>, j |-> 1, pending |-> <<>>, commits |-> <<>>,
     history |-> <<>>]

\* A call of define.
DefineFrame(term, remote_contexts, base_url, protected, options) ==
    [fn |-> "define", pc |-> "enter",
     term |-> term, remote_contexts |-> remote_contexts,
     base_url |-> base_url, protected |-> protected, options |-> options,
     value |-> JNull, previous_definition |-> None, simple_term |-> TRUE,
     definition |-> DefaultDefinition(protected)]

\* A call of expand_iri (the one of context/processing.rs).
ExpandIriFrame(value, document_relative, vocab, remote_contexts, options) ==
    [fn |-> "expand_iri", pc |-> "enter",
     value |-> value, document_relative |-> document_relative,
     vocab |-> vocab, remote_contexts |-> remote_contexts,
     options |-> options]

\* `?` on the result of the call that just returned.
Failed(M) == M.ret.k = "err"

---------------------------------------------------------------------------
(* expand_iri.  The pure parts give [done, term, warns]: whether the code  *)
(* returns there, the Term returned and the warnings pushed.               *)

Returns(term, warns) == [done |-> TRUE, term |-> term, warns |-> warns]
Continues == [done |-> FALSE, term |-> TermNull, warns |-> <<>>]

\* invalid_iri: an invalid reference and a MalformedIri warning.
invalid_iri(value) ==
    Returns(TermInvalid(value), <<Warning("MalformedIri", value)>>)

\* The text before and after the first ":" of a string that has one.
PrefixOf(value) == SubSeq(value, 1, Find(value, ":") - 1)
SuffixOf(value) == SubSeq(value, Find(value, ":") + 1, Len(value))

\* Term::from(T::from_iri(..)) or Term::from(blank) or an invalid
\* reference, for a concatenated string.
TermOfConcat(result) ==
    IF IsIri(result) THEN TermIri(result)
    ELSE IF IsBlankId(result) THEN TermBlank(SubSeq(result, 3, Len(result)))
    ELSE TermInvalid(result)

\* The term definition of the whole value: a keyword mapping always wins,
\* any mapping wins when vocab is set.
ExpandIriTermDefinition(active_context, value, vocab) ==
    LET d == Context_get(active_context, value)
    IN  IF IsNone(d) THEN Continues
        ELSE IF IsSome(d.v.value) /\ d.v.value.v.k = "keyword"
             THEN Returns(d.v.value.v, <<>>)
        ELSE IF vocab
             THEN IF IsSome(d.v.value) THEN Returns(d.v.value.v, <<>>)
                  ELSE invalid_iri(value)
        ELSE Continues

\* A value with a colon after its first character, before the prefix is
\* looked up: blank node identifiers and "scheme://" IRIs.
ExpandIriColon(value) ==
    IF PrefixOf(value) = <<"_">> THEN Returns(TermBlank(SuffixOf(value)), <<>>)
    ELSE IF StartsWith(SuffixOf(value), <<"/", "/">>)
         THEN IF IsIri(value) THEN Returns(TermIri(value), <<>>)
              ELSE invalid_iri(value)
    ELSE Continues

\* ExpandIriCompact with every defined term taken for a prefix.
ExpandIriCompactAnyTerm(active_context, value) ==
    LET d == Context_get(active_context, PrefixOf(value))
    IN  IF IsSome(d) /\ IsSome(d.v.value)
        THEN Returns(TermOfConcat(TermStr(d.v.value.v) \o SuffixOf(value)), <<>>)
        ELSE IF IsIri(value) THEN Returns(TermIri(value), <<>>)
        ELSE Continues

\* The compact IRI reading, once the prefix has been defined.
ExpandIriCompact(active_context, value) ==
    LET d == Context_get(active_context, PrefixOf(value))
    IN  IF IsSome(d) /\ d.v.prefix /\ IsSome(d.v.value)
        THEN Returns(TermOfConcat(TermStr(d.v.value.v) \o SuffixOf(value)), <<>>)
        ELSE IF IsIri(value) THEN Returns(TermIri(value), <<>>)
        ELSE Continues

\* The vocabulary mapping, then the base IRI, then an invalid reference.
ExpandIriRelative(active_context, value, document_relative, vocab) ==
    IF vocab /\ IsSome(active_context.vocabulary)
    THEN IF IsRef(active_context.vocabulary.v)
         THEN Returns(TermOfConcat(TermStr(active_context.vocabulary.v) \o value), <<>>)
         ELSE invalid_iri(value)
    ELSE IF document_relative
         THEN IF IsIriRef(value)
              THEN LET r == resolve_iri(value, active_context.base_iri)
                   IN  IF IsSome(r) THEN Returns(TermIri(r.v), <<>>)
                       ELSE invalid_iri(value)
              ELSE invalid_iri(value)
    ELSE invalid_iri(value)

\* expansion::expand_iri, the expansion without a local context: the same
\* steps with no term definition created on the way.
expansion_expand_iri(active_context, value, document_relative, vocab) ==
    IF is_keyword(value) THEN Returns(TermKeyword(value), <<>>)
    ELSE IF is_keyword_like(value)
         THEN Returns(TermNull, <<Warning("KeywordLikeValue", value)>>)
    ELSE LET a == ExpandIriTermDefinition(active_context, value, vocab)
             b == IF Find(value, ":") > 1 THEN ExpandIriColon(value) ELSE Continues
             c == IF Find(value, ":") > 1 THEN ExpandIriCompact(active_context, value)
                  ELSE Continues
         IN  IF a.done THEN a
             ELSE IF b.done THEN b
             ELSE IF c.done THEN c
             ELSE ExpandIriRelative(active_context, value, document_relative, vocab)

\* return Ok(term), after pushing the warnings.
ReturnTerm(M, r) ==
    Return([M EXCEPT !.warnings = M.warnings \o r.warns], Ok(r.term))

\* ExpandIriEnter with every string of the form of a keyword taken for a
\* keyword.
ExpandIriEnterLax(M) ==
    LET f == Top(M)
    IN  IF is_keyword_like(f.value) THEN Return(M, Ok(TermKeyword(f.value)))
        ELSE Call(M, "after_define",
                  DefineFrame(f.value, f.remote_contexts, None, FALSE,
                              with_no_override(f.options)))

\* expand_iri from its entry to the call of define for the value.
ExpandIriEnter(M) ==
    LET f == Top(M)
    IN  IF is_keyword(f.value) THEN Return(M, Ok(TermKeyword(f.value)))
        ELSE IF is_keyword_like(f.value)
             THEN Return(Warn(M, "KeywordLikeValue", f.value), Ok(TermNull))
        ELSE Call(M, "after_define",
                  DefineFrame(f.value, f.remote_contexts, None, FALSE,
                              with_no_override(f.options)))

\* expand_iri after the vocabulary mapping and base IRI are all that is left.
ExpandIriFinish(M) ==
    LET f == Top(M)
    IN  ReturnTerm(M, ExpandIriRelative(ActiveContext(M), f.value,
                                        f.document_relative, f.vocab))

\* expand_iri from the return of define(value) to the call define(prefix).
ExpandIriAfterDefine(M) ==
    LET f == Top(M)
        a == ExpandIriTermDefinition(ActiveContext(M), f.value, f.vocab)
    IN  IF Failed(M) THEN Return(M, M.ret)
        ELSE IF a.done THEN ReturnTerm(M, a)
        ELSE IF Find(f.value, ":") > 1
             THEN IF ExpandIriColon(f.value).done
                  THEN ReturnTerm(M, ExpandIriColon(f.value))
                  ELSE Call(M, "after_prefix",
                            DefineFrame(PrefixOf(f.value), f.remote_contexts, None,
                                        FALSE, with_no_override(f.options)))
        ELSE ExpandIriFinish(M)

\* expand_iri from the return of define(prefix) to its end.
ExpandIriAfterPrefix(M) ==
    LET f == Top(M)
        c == ExpandIriCompact(ActiveContext(M), f.value)
    IN  IF Failed(M) THEN Return(M, M.ret)
        ELSE IF c.done THEN ReturnTerm(M, c)
        ELSE ExpandIriFinish(M)

---------------------------------------------------------------------------
(* define (Create Term Definition).  Every operator below runs one stretch *)
(* of the function: it returns through Return, suspends through Call, or   *)
(* goes on with the operator for the next stretch.                         *)

\* Value accessors of generic_json.
as_str(json) == IF json.k = "string" THEN Some(json.v) ELSE None
as_bool(json) == IF json.k = "bool" THEN Some(json.v) ELSE None
is_null(json) == json.k = "null"

\* WrappedValue::id, on the raw value of the term (null, string or object).
WrappedValue_id(value) ==
    CASE value.k = "null" -> Some(JNull)
      [] value.k = "string" -> Some(value)
      [] OTHER -> ObjGet(value.v, Keyword.Id)

\* WrappedValue::get
WrappedValue_get(value, key) ==
    IF value.k = "object" THEN ObjGet(value.v, key) ELSE None

\* WrappedValue::iter
WrappedValue_iter(value) == IF value.k = "object" THEN value.v ELSE <<>>

\* LanguageTagBuf::parse_copy succeeds: letters, with "-" between subtags.
IsLanguageTag(s) ==
    /\ Len(s) > 0
    /\ \A i \in 1..Len(s) : s[i] \in Alpha \cup {"-"}
    /\ s[1] # "-" /\ s[Len(s)] # "-"

is_gen_delim(c) == c \in {":", "/", "?", "#", "[", "]", "@"}

is_gen_delim_or_blank(t) ==
    CASE t.k = "blank" -> TRUE
      [] t.k = "iri" -> Len(t.v) > 0 /\ is_gen_delim(t.v[Len(t.v)])
      [] OTHER -> FALSE

contains_after_first(id, c) == Find(id, c) > 1

contains_between_boundaries(id, c) ==
    Find(id, c) > 1 /\ RFind(id, c) < Len(id)

\* The definition under construction, in the running define frame.
SetDefinition(M, definition) ==
    [M EXCEPT !.stack[Len(M.stack)].definition = definition]

\* active_context.set(term, Some(definition))
CommitDefinition(M, term, definition) ==
    LET o == OwnerIndex(M.stack)
    IN  [M EXCEPT !.stack[o].result =
                      Context_set(M.stack[o].result, term, Some(definition)),
                  !.stack[o].commits = Append(M.stack[o].commits, term)]

\* A panic unwinds every frame: the outermost call ends without a result.
Panic(M, what) ==
    [M EXCEPT !.stack = <<[M.stack[1] EXCEPT !.pc = "done"]>>,
              !.ret = [k |-> "panic", v |-> what]]

\* The protected-term rule: the definition to store, or the error.
ProtectedCheck(definition, previous_definition, options) ==
    IF /\ ~options.override_protected
       /\ IsSome(previous_definition)
       /\ previous_definition.v.protected
    THEN IF ~DefinitionEq(definition, previous_definition.v)
         THEN Err("ProtectedTermRedefinition")
         ELSE Ok([definition EXCEPT !.protected = TRUE])
    ELSE Ok(definition)

\* The protected check, then the term definition and defined[term] are set.
DefineCommit(M) ==
    LET f == Top(M)
        r == ProtectedCheck(f.definition, f.previous_definition, f.options)
    IN  IF r.k = "err" THEN Return(M, r)
        ELSE Return(SetDefined(CommitDefinition(M, f.term, r.v), f.term, TRUE),
                    Ok(Unit))

\* Any entry other than the known ones is an invalid term definition.
DefineKnownEntries(M) ==
    LET f == Top(M)
        known == {Keyword.Id, Keyword.Reverse, Keyword.Container, Keyword.Context, Keyword.Direction, Keyword.Index,
                  Keyword.Language, Keyword.Nest, Keyword.Prefix, Keyword.Protected, Keyword.Type}
        entries == WrappedValue_iter(f.value)
    IN  IF \E n \in 1..Len(entries) : entries[n].key \notin known
        THEN Return(M, Err("InvalidTermDefinition"))
        ELSE Go("DefineCommit", M)

\* The @prefix entry.
DefinePrefixEntry(M) ==
    LET f == Top(M)
        prefix_value == WrappedValue_get(f.value, Keyword.Prefix)
    IN  IF IsNone(prefix_value) THEN Go("DefineKnownEntries", M)
        ELSE IF \/ Contains(f.term, ":") \/ Contains(f.term, "/")
                \/ f.options.processing_mode = "1.0"
             THEN Return(M, Err("InvalidTermDefinition"))
        ELSE IF IsNone(as_bool(prefix_value.v))
             THEN Return(M, Err("InvalidPrefixValue"))
        ELSE IF as_bool(prefix_value.v).v
             THEN IF IsNone(f.definition.value)
                  THEN Panic(M, "unwrap")
                  ELSE IF f.definition.value.v.k = "keyword"
                       THEN Return(M, Err("InvalidTermDefinition"))
                       ELSE Go("DefineKnownEntries",
                                SetDefinition(M, [f.definition EXCEPT !.prefix = TRUE]))
        ELSE Go("DefineKnownEntries",
                 SetDefinition(M, [f.definition EXCEPT !.prefix = FALSE]))

\* The @nest entry.
DefineNestEntry(M) ==
    LET f == Top(M)
        nest_value == WrappedValue_get(f.value, Keyword.Nest)
    IN  IF IsNone(nest_value) THEN Go("DefinePrefixEntry", M)
        ELSE IF f.options.processing_mode = "1.0"
             THEN Return(M, Err("InvalidTermDefinition"))
        ELSE IF IsNone(as_str(nest_value.v))
             THEN Return(M, Err("InvalidNestValue"))
        ELSE IF is_keyword(nest_value.v.v) /\ nest_value.v.v # Keyword.Nest
             THEN Return(M, Err("InvalidNestValue"))
        ELSE Go("DefinePrefixEntry",
                 SetDefinition(M, [f.definition EXCEPT !.nest = Some(nest_value.v.v)]))

\* The @direction entry (without @type).
DefineDirectionEntry(M) ==
    LET f == Top(M)
        direction_value == WrappedValue_get(f.value, Keyword.Direction)
        with(d) == Go("DefineNestEntry",
                       SetDefinition(M, [f.definition EXCEPT !.direction = Some(d)]))
    IN  IF IsSome(WrappedValue_get(f.value, Keyword.Type)) \/ IsNone(direction_value)
        THEN Go("DefineNestEntry", M)
        ELSE IF as_str(direction_value.v) = Some(Ltr) THEN with(NullableSome(Ltr))
        ELSE IF as_str(direction_value.v) = Some(Rtl) THEN with(NullableSome(Rtl))
        ELSE IF is_null(direction_value.v) THEN with(NullableNull)
        ELSE Return(M, Err("InvalidBaseDirection"))

\* The @language entry (without @type).
DefineLanguageEntry(M) ==
    LET f == Top(M)
        language_value == WrappedValue_get(f.value, Keyword.Language)
        with(N, l) == Go("DefineDirectionEntry",
                          SetDefinition(N, [f.definition EXCEPT !.language = Some(l)]))
    IN  IF IsSome(WrappedValue_get(f.value, Keyword.Type)) \/ IsNone(language_value)
        THEN Go("DefineDirectionEntry", M)
        ELSE IF is_null(language_value.v) THEN with(M, NullableNull)
        ELSE IF language_value.v.k = "string"
             THEN IF IsLanguageTag(language_value.v.v)
                  THEN with(M, NullableSome(language_value.v.v))
                  ELSE with(Warn(M, "MalformedLanguageTag", language_value.v.v),
                            NullableSome(language_value.v.v))
        ELSE Return(M, Err("InvalidLanguageMapping"))

\* define after the scoped context was processed: its result is dropped,
\* the raw context and the base URL are kept in the definition.
DefineAfterScoped(M) ==
    LET f == Top(M)
        context == WrappedValue_get(f.value, Keyword.Context)
    IN  IF Failed(M) THEN Return(M, Err("InvalidScopedContext"))
        ELSE Go("DefineLanguageEntry",
                 SetDefinition(M, [f.definition EXCEPT !.context = Some(context.v),
                                                       !.base_url = f.base_url]))

\* DefineContextEntry with the options of define handed on as they are.
DefineContextEntryNoOverride(M) ==
    LET f == Top(M)
        context == WrappedValue_get(f.value, Keyword.Context)
    IN  IF IsNone(context) THEN Go("DefineLanguageEntry", M)
        ELSE IF f.options.processing_mode = "1.0"
             THEN Return(M, Err("InvalidTermDefinition"))
        ELSE Call(M, "after_scoped",
                  ProcessContextFrame(ActiveContext(M), context.v, f.remote_contexts,
                                      f.base_url, f.options))

\* The @context entry: context processing is called on it, with
\* override_protected set.
DefineContextEntry(M) ==
    LET f == Top(M)
        context == WrappedValue_get(f.value, Keyword.Context)
    IN  IF IsNone(context) THEN Go("DefineLanguageEntry", M)
        ELSE IF f.options.processing_mode = "1.0"
             THEN Return(M, Err("InvalidTermDefinition"))
        ELSE Call(M, "after_scoped",
                  ProcessContextFrame(ActiveContext(M), context.v, f.remote_contexts,
                                      f.base_url, with_override(f.options)))

\* The @index entry.
DefineIndexEntry(M) ==
    LET f == Top(M)
        index_value == WrappedValue_get(f.value, Keyword.Index)
        e == expansion_expand_iri(ActiveContext(M), index_value.v.v, FALSE, TRUE)
    IN  IF IsNone(index_value) THEN Go("DefineContextEntry", M)
        ELSE IF \/ ~Container_contains(f.definition.container, "Index")
                \/ f.options.processing_mode = "1.0"
             THEN Return(M, Err("InvalidTermDefinition"))
        ELSE IF index_value.v.k # "string"
             THEN Return(M, Err("InvalidTermDefinition"))
        ELSE IF e.term.k # "iri"
             THEN Return([M EXCEPT !.warnings = M.warnings \o e.warns],
                         Err("InvalidTermDefinition"))
        ELSE Go("DefineContextEntry",
                 SetDefinition([M EXCEPT !.warnings = M.warnings \o e.warns],
                               [f.definition EXCEPT !.index = Some(index_value.v.v)]))

\* definition.container.add(c) for each entry of the @container value, in
\* order: Some(container), or None at the first entry that is no string,
\* no container type or that add refuses.
RECURSIVE AddContainerEntries(_, _, _)
AddContainerEntries(held, entries, n) ==
    IF n > Len(entries) THEN Some(held)
    ELSE IF entries[n].k # "string" THEN None
    ELSE IF IsNone(ContainerType_try_from(entries[n].v)) THEN None
    ELSE IF ~Container_add(held, ContainerType_try_from(entries[n].v).v).ok
         THEN None
    ELSE AddContainerEntries(
             Container_add(held, ContainerType_try_from(entries[n].v).v).container,
             entries, n + 1)

\* The @container entry.
DefineContainerEntry(M) ==
    LET f == Top(M)
        container_value == WrappedValue_get(f.value, Keyword.Container)
        c == AddContainerEntries(f.definition.container,
                                 as_array(container_value.v), 1)
        d == [f.definition EXCEPT !.container = c.v]
    IN  IF IsNone(container_value) THEN Go("DefineIndexEntry", M)
        ELSE IF /\ f.options.processing_mode = "1.0"
                /\ as_str(container_value.v) \in {Some(Keyword.Graph), Some(Keyword.Id), Some(Keyword.Type), None}
             THEN Return(M, Err("InvalidContainerMapping"))
        ELSE IF IsNone(c) THEN Return(M, Err("InvalidContainerMapping"))
        ELSE IF Container_contains(c.v, "Type")
             THEN IF IsSome(d.typ)
                  THEN IF d.typ.v.k \in {"Id", "Vocab"}
                       THEN Go("DefineIndexEntry", SetDefinition(M, d))
                       ELSE Return(M, Err("InvalidTypeMapping"))
                  ELSE Go("DefineIndexEntry",
                           SetDefinition(M, [d EXCEPT !.typ = Some([k |-> "Id", v |-> <<>>])]))
        ELSE Go("DefineIndexEntry", SetDefinition(M, d))

\* DefineSimpleTermPrefix for terms given as a map as well.
DefineSimpleTermPrefixAnyTerm(M) ==
    LET f == Top(M)
    IN  IF /\ ~Contains(f.term, ":")
           /\ ~Contains(f.term, "/")
           /\ is_gen_delim_or_blank(f.definition.value.v)
        THEN Go("DefineContainerEntry",
                 SetDefinition(M, [f.definition EXCEPT !.prefix = TRUE]))
        ELSE Go("DefineContainerEntry", M)

\* The prefix flag of a simple term whose IRI mapping ends in a gen-delim
\* or is a blank node identifier.
DefineSimpleTermPrefix(M) ==
    LET f == Top(M)
    IN  IF /\ ~Contains(f.term, ":")
           /\ ~Contains(f.term, "/")
           /\ f.simple_term
           /\ is_gen_delim_or_blank(f.definition.value.v)
        THEN Go("DefineContainerEntry",
                 SetDefinition(M, [f.definition EXCEPT !.prefix = TRUE]))
        ELSE Go("DefineContainerEntry", M)

\* DefineAfterTermExpand without the comparison.
DefineAfterTermExpandUnchecked(M) ==
    LET f == Top(M)
    IN  IF Failed(M) THEN Return(M, M.ret)
        ELSE Go("DefineSimpleTermPrefix", M)

\* define after expand_iri(term): the term must expand to its IRI mapping.
DefineAfterTermExpand(M) ==
    LET f == Top(M)
    IN  IF Failed(M) THEN Return(M, M.ret)
        ELSE IF f.definition.value # Some(M.ret.v)
             THEN Return(M, Err("InvalidIriMapping"))
        ELSE Go("DefineSimpleTermPrefix", M)

\* define after expand_iri(@id value): the IRI mapping, then the check of
\* a compact-IRI or relative-IRI term against it.
DefineAfterId(M) ==
    LET f == Top(M)
        t == M.ret.v
        N == SetDefinition(M, [f.definition EXCEPT !.value = Some(t)])
    IN  IF Failed(M) THEN Return(M, M.ret)
        ELSE IF t = TermKeyword(Keyword.Context)
             THEN Return(M, Err("InvalidKeywordAlias"))
        ELSE IF IsRef(t) /\ ~IsValidRef(t)
             THEN Return(M, Err("InvalidIriMapping"))
        ELSE IF contains_between_boundaries(f.term, ":") \/ Contains(f.term, "/")
             THEN Call(SetDefined(N, f.term, TRUE), "after_term_expand",
                       ExpandIriFrame(f.term, FALSE, TRUE, f.remote_contexts, f.options))
        ELSE Go("DefineSimpleTermPrefix", N)

\* define after define(prefix of the term): the IRI mapping of a term that
\* is a compact IRI or an IRI and has no @id of its own.
DefineAfterPrefix(M) ==
    LET f == Top(M)
        prefix == PrefixOf(f.term)
        suffix == SuffixOf(f.term)
        prefix_definition == Context_get(ActiveContext(M), prefix)
        result ==
            (IF /\ IsSome(prefix_definition.v.value)
                /\ prefix_definition.v.value.v.k = "iri"
             THEN prefix_definition.v.value.v.v ELSE <<>>) \o suffix
        with(t) == Go("DefineContainerEntry",
                       SetDefinition(M, [f.definition EXCEPT !.value = Some(t)]))
    IN  IF Failed(M) THEN Return(M, M.ret)
        ELSE IF IsSome(prefix_definition)
             THEN IF IsIri(result) THEN with(TermIri(result))
                  ELSE Return(M, Err("InvalidIriMapping"))
        ELSE IF prefix = <<"_">> THEN with(TermBlank(suffix))
        ELSE IF IsIri(f.term) THEN with(TermIri(f.term))
        ELSE Return(M, Err("InvalidIriMapping"))

\* The IRI mapping of a term without @id (or whose @id is the term).
DefineWithoutId(M) ==
    LET f == Top(M)
        e == expansion_expand_iri(ActiveContext(M), f.term, FALSE, TRUE)
        W == [M EXCEPT !.warnings = M.warnings \o e.warns]
        vocabulary == ActiveContext(M).vocabulary
        with(N, t) == Go("DefineContainerEntry",
                          SetDefinition(N, [f.definition EXCEPT !.value = Some(t)]))
    IN  IF contains_after_first(f.term, ":")
        THEN Call(M, "after_prefix",
                  DefineFrame(PrefixOf(f.term), f.remote_contexts, None, FALSE,
                              with_no_override(f.options)))
        ELSE IF Contains(f.term, "/")
             THEN IF e.term.k = "iri" THEN with(W, e.term)
                  ELSE Return(W, Err("InvalidIriMapping"))
        ELSE IF f.term = Keyword.Type THEN with(M, TermKeyword(Keyword.Type))
        ELSE IF IsSome(vocabulary)
             THEN IF vocabulary.v.k = "iri" /\ IsIri(vocabulary.v.v \o f.term)
                  THEN with(M, TermIri(vocabulary.v.v \o f.term))
                  ELSE Return(M, Err("InvalidIriMapping"))
        ELSE Return(M, Err("InvalidIriMapping"))

\* The @id entry.
DefineIdEntry(M) ==
    LET f == Top(M)
        id_value == WrappedValue_id(f.value)
    IN  IF IsSome(id_value) /\ as_str(id_value.v) # Some(f.term)
        THEN IF is_null(id_value.v) THEN Go("DefineContainerEntry", M)
             ELSE IF id_value.v.k # "string"
                  THEN Return(M, Err("InvalidIriMapping"))
             ELSE IF is_keyword_like(id_value.v.v) /\ ~is_keyword(id_value.v.v)
                  THEN Return(Warn(M, "KeywordLikeValue", id_value.v.v), Ok(Unit))
             ELSE Call(M, "after_id",
                       ExpandIriFrame(id_value.v.v, FALSE, TRUE,
                                      f.remote_contexts, f.options))
        ELSE Go("DefineWithoutId", M)

\* ReverseContainer with every container type allowed.
ReverseContainerLax(definition, container_value) ==
    IF IsNone(container_value) \/ is_null(container_value.v) THEN Some(definition)
    ELSE IF container_value.v.k # "string" THEN None
    ELSE IF IsSome(ContainerType_try_from(container_value.v.v))
         THEN Some([definition EXCEPT !.container =
                        Container_add(definition.container,
                                      ContainerType_try_from(container_value.v.v).v).container])
    ELSE None

\* The @container entry of a reverse property: null, @set or @index.
ReverseContainer(definition, container_value) ==
    IF IsNone(container_value) \/ is_null(container_value.v) THEN Some(definition)
    ELSE IF container_value.v.k # "string" THEN None
    ELSE IF ContainerType_try_from(container_value.v.v) \in {Some("Set"), Some("Index")}
         THEN Some([definition EXCEPT !.container =
                        Container_add(definition.container,
                                      ContainerType_try_from(container_value.v.v).v).container])
    ELSE None

\* define after expand_iri(@reverse value): the reverse property is stored
\* and define returns.
DefineAfterReverse(M) ==
    LET f == Top(M)
        t == M.ret.v
        d == ReverseContainer([f.definition EXCEPT !.value = Some(t)],
                              WrappedValue_get(f.value, Keyword.Container))
    IN  IF Failed(M) THEN Return(M, M.ret)
        ELSE IF ~(IsRef(t) /\ IsValidRef(t))
             THEN Return(M, Err("InvalidIriMapping"))
        ELSE IF IsNone(d) THEN Return(M, Err("InvalidReverseProperty"))
        ELSE Return(SetDefined(
                        CommitDefinition(M, f.term,
                                         [d.v EXCEPT !.reverse_property = TRUE]),
                        f.term, TRUE),
                    Ok(Unit))

\* The @reverse entry.
DefineReverseEntry(M) ==
    LET f == Top(M)
        reverse_value == WrappedValue_get(f.value, Keyword.Reverse)
    IN  IF IsNone(reverse_value) THEN Go("DefineIdEntry", M)
        ELSE IF \/ IsSome(WrappedValue_id(f.value))
                \/ IsSome(WrappedValue_get(f.value, Keyword.Nest))
             THEN Return(M, Err("InvalidReverseProperty"))
        ELSE IF reverse_value.v.k # "string"
             THEN Return(M, Err("InvalidIriMapping"))
        ELSE IF is_keyword_like(reverse_value.v.v)
             THEN Return(Warn(M, "KeywordLikeValue", reverse_value.v.v), Ok(Unit))
        ELSE Call(M, "after_reverse",
                  ExpandIriFrame(reverse_value.v.v, FALSE, TRUE,
                                 f.remote_contexts, f.options))

\* define after expand_iri(@type value): the type mapping.
DefineAfterType(M) ==
    LET f == Top(M)
        typ == M.ret.v
    IN  IF Failed(M) THEN Return(M, M.ret)
        ELSE IF /\ f.options.processing_mode = "1.0"
                /\ typ \in {TermKeyword(Keyword.Json), TermKeyword(Keyword.None)}
             THEN Return(M, Err("InvalidTypeMapping"))
        ELSE IF IsNone(TypeFromTerm(typ))
             THEN Return(M, Err("InvalidTypeMapping"))
        ELSE Go("DefineReverseEntry",
                 SetDefinition(M, [f.definition EXCEPT !.typ = TypeFromTerm(typ)]))

\* The @type entry.
DefineTypeEntry(M) ==
    LET f == Top(M)
        type_value == WrappedValue_get(f.value, Keyword.Type)
    IN  IF IsNone(type_value) THEN Go("DefineReverseEntry", M)
        ELSE IF type_value.v.k # "string"
             THEN Return(M, Err("InvalidTypeMapping"))
        ELSE Call(M, "after_type",
                  ExpandIriFrame(type_value.v.v, FALSE, TRUE,
                                 f.remote_contexts, f.options))

\* The @protected entry.
DefineProtectedEntry(M) ==
    LET f == Top(M)
        protected_value == WrappedValue_get(f.value, Keyword.Protected)
    IN  IF IsNone(protected_value) THEN Go("DefineTypeEntry", M)
        ELSE IF IsNone(as_bool(protected_value.v))
             THEN Return(M, Err("InvalidProtectedValue"))
        ELSE IF f.options.processing_mode = "1.0"
             THEN Return(M, Err("InvalidTermDefinition"))
        ELSE Go("DefineTypeEntry",
                 SetDefinition(M, [f.definition EXCEPT
                                       !.protected = as_bool(protected_value.v).v]))

\* The previous definition is taken out of the active context and the
\* value is wrapped: null and strings stand for { "@id": value }.
DefineTakePrevious(M, value) ==
    LET f == Top(M)
        previous_definition == Context_get(ActiveContext(M), f.term)
        N == SetActiveContext(M, Context_set(ActiveContext(M), f.term, None))
    IN  IF value.k \notin {"null", "string", "object"}
        THEN Return(N, Err("InvalidTermDefinition"))
        ELSE Go("DefineProtectedEntry",
                 SetTop(N, [f EXCEPT !.value = value,
                                     !.previous_definition = previous_definition,
                                     !.simple_term = (value.k # "object"),
                                     !.definition = DefaultDefinition(f.protected)]))

\* The only redefinition of @type allowed: a map with @container: @set
\* and/or @protected.
IsTypeRedefinition(value) ==
    /\ value.k = "object"
    /\ Len(value.v) > 0
    /\ \A n \in 1..Len(value.v) :
           \/ value.v[n].key = Keyword.Container /\ as_str(value.v[n].val) = Some(Keyword.Set)
           \/ value.v[n].key = Keyword.Protected

\* DefineKeywordCheck with @type the only keyword that is checked.
DefineKeywordCheckTypeOnly(M, value) ==
    LET f == Top(M)
    IN  IF f.term = Keyword.Type
        THEN IF f.options.processing_mode = "1.0" \/ ~IsTypeRedefinition(value)
             THEN Return(M, Err("KeywordRedefinition"))
             ELSE DefineTakePrevious(M, value)
        ELSE DefineTakePrevious(M, value)

\* Keywords cannot be redefined, and a keyword-like term is skipped.
DefineKeywordCheck(M, value) ==
    LET f == Top(M)
    IN  IF f.term = Keyword.Type
        THEN IF f.options.processing_mode = "1.0" \/ ~IsTypeRedefinition(value)
             THEN Return(M, Err("KeywordRedefinition"))
             ELSE DefineTakePrevious(M, value)
        ELSE IF is_keyword(f.term) THEN Return(M, Err("KeywordRedefinition"))
        ELSE IF is_keyword_like(f.term)
             THEN Return(Warn(M, "KeywordLikeTerm", f.term), Ok(Unit))
        ELSE DefineTakePrevious(M, value)

\* DefinedEntry that takes Some(true) for None.
DefinedEntryForgetful(defined, term) ==
    IF term \notin DOMAIN defined \/ defined[term] THEN "absent"
    ELSE "being_defined"

\* defined.get(term): "defined" for Some(true), "being_defined" for
\* Some(false), "absent" for None.
DefinedEntry(defined, term) ==
    IF term \notin DOMAIN defined THEN "absent"
    ELSE IF defined[term] THEN "defined" ELSE "being_defined"

\* MarkBeingDefined without the insertion.
MarkBeingDefinedLate(M, term) == M

\* defined.insert(term, false): the term definition is being created.
MarkBeingDefined(M, term) == SetDefined(M, term, FALSE)

\* DefineEnter that marks a term the local context does not have as being
\* defined.
DefineEnterMarkingAbsent(M) ==
    LET f == Top(M)
        entry == DefinedEntry(Defined(M), f.term)
        value == LocalContextObject_get(Owner(M).context, f.term)
    IN  IF entry = "defined" THEN Return(M, Ok(Unit))
        ELSE IF entry = "being_defined" THEN Return(M, Err("CyclicIriMapping"))
        ELSE IF Len(f.term) = 0 THEN Return(M, Err("InvalidTermDefinition"))
        ELSE IF IsNone(value) THEN Return(MarkBeingDefined(M, f.term), Ok(Unit))
        ELSE DefineKeywordCheck(MarkBeingDefined(M, f.term), value.v)

\* define from its entry.
DefineEnter(M) ==
    LET f == Top(M)
        entry == DefinedEntry(Defined(M), f.term)
        value == LocalContextObject_get(Owner(M).context, f.term)
    IN  IF entry = "defined" THEN Return(M, Ok(Unit))
        ELSE IF entry = "being_defined" THEN Return(M, Err("CyclicIriMapping"))
        ELSE IF Len(f.term) = 0 THEN Return(M, Err("InvalidTermDefinition"))
        ELSE IF IsNone(value) THEN Return(M, Ok(Unit))
        ELSE DefineKeywordCheck(MarkBeingDefined(M, f.term), value.v)

---------------------------------------------------------------------------
(* The remote documents the loader serves.  Every run uses the same        *)
(* documents; the local context, the options, the active context and the   *)
(* base URL of a run are chosen by Init.                                   *)

TermName == <<"n","a","m","e">>
TermOther == <<"o","t","h","e","r">>
TermA == <<"a">>
TermB == <<"b">>
TermC == <<"c">>
TermT == <<"t">>
TermP == <<"p">>
TermAX == <<"a",":","x">>
TermBY == <<"b",":","y">>
TermPX == <<"p",":","x">>
TermFoo == <<"@","f","o","o">>
IriA == <<"h",":","/","/","a","/">>
IriB == <<"h",":","/","/","b","/">>
IriXT == <<"h",":","/","/","x","/","t">>
IriPX == <<"h",":","/","/","a","/","x">>
IriV == <<"h",":","/","/","v","#">>
LangEn == <<"e","n">>
LangBad == <<"e"," ","n">>
BaseUrl == <<"h",":","/","/","d","/","d","o","c">>
UrlA1 == <<"h",":","/","/","r","/","a","1">>
UrlB1 == <<"h",":","/","/","r","/","b","1">>
UrlA2 == <<"h",":","/","/","r","/","a","2">>
UrlB2 == <<"h",":","/","/","r","/","b","2">>
UrlA3 == <<"h",":","/","/","r","/","a","3">>
UrlB3 == <<"h",":","/","/","r","/","b","3">>
UrlA4 == <<"h",":","/","/","r","/","a","4">>
UrlB4 == <<"h",":","/","/","r","/","b","4">>
UrlLoop == <<"h",":","/","/","r","/","l","o","o","p">>
UrlSelf == <<"h",":","/","/","r","/","s","e","l","f">>
UrlS == <<"h",":","/","/","r","/","s">>
UrlSame == <<"h",":","/","/","r","/","s","a","m","e">>
UrlNoContext == <<"h",":","/","/","r","/","n","o","n","e">>
UrlMissing == <<"h",":","/","/","r","/","m","i","s","s","i","n","g">>
UrlChain == <<"h",":","/","/","c","/">>
UrlBase == <<"h",":","/","/","r","/","b","a","s","e">>

\* The n-th document of a chain of pairwise distinct remote contexts.
ChainUrl(n) == UrlChain \o [m \in 1..n |-> "c"]
ChainLength == SpecDepthCap + 1

Obj1(k1, v1) == JObj(<<Entry(k1, v1)>>)
Obj2(k1, v1, k2, v2) == JObj(<<Entry(k1, v1), Entry(k2, v2)>>)
Obj3(k1, v1, k2, v2, k3, v3) ==
    JObj(<<Entry(k1, v1), Entry(k2, v2), Entry(k3, v3)>>)

\* The @context entry of the document at a URL; None for a document
\* without one.
RemoteContext(url) ==
    CASE url = UrlA1 -> Some(Obj1(Keyword.Import, JStr(UrlB1)))
      [] url = UrlB1 -> Some(JStr(UrlA1))
      [] url = UrlA2 -> Some(Obj1(Keyword.Import, JStr(UrlB2)))
      [] url = UrlB2 -> Some(Obj1(Keyword.Import, JStr(UrlA2)))
      [] url = UrlA3 -> Some(Obj1(Keyword.Import, JStr(UrlB3)))
      [] url = UrlB3 ->
             Some(Obj1(TermT, Obj2(Keyword.Id, JStr(IriXT), Keyword.Context, JStr(UrlA3))))
      [] url = UrlA4 -> Some(Obj1(Keyword.Import, JStr(UrlB4)))
      [] url = UrlB4 -> Some(JArr(<<JStr(UrlA4)>>))
      [] url = UrlLoop ->
             Some(Obj1(TermT, Obj2(Keyword.Id, JStr(IriXT),
                                   Keyword.Context, Obj1(Keyword.Import, JStr(UrlLoop)))))
      [] url = UrlSelf -> Some(JStr(UrlSelf))
      [] url = UrlS -> Some(Obj1(TermName, JStr(IriB)))
      [] url = UrlSame -> Some(Obj1(TermName, JStr(IriA)))
      [] url = UrlNoContext -> None
      [] url = UrlBase -> Some(Obj2(Keyword.Base, JStr(IriA), TermName, JStr(IriB)))
      [] \E n \in 1..(ChainLength - 1) : url = ChainUrl(n) ->
             Some(JStr(ChainUrl(Len(url) - Len(UrlChain) + 1)))
      [] url = ChainUrl(ChainLength) -> Some(Obj1(TermOther, JStr(IriB)))

RemoteUrls ==
    {UrlA1, UrlB1, UrlA2, UrlB2, UrlA3, UrlB3, UrlA4, UrlB4, UrlLoop, UrlSelf, UrlS,
     UrlSame, UrlNoContext, UrlBase} \cup {ChainUrl(n) : n \in 1..ChainLength}

\* Loader::load_context: the document (its URL and its context), or the
\* failure of the load.
load_context(url) ==
    IF url \notin RemoteUrls THEN Err("LoadingDocumentFailed")
    ELSE IF IsNone(RemoteContext(url)) THEN Err("InvalidRemoteContext")
    ELSE Ok([url |-> url, context |-> RemoteContext(url).v])

---------------------------------------------------------------------------
(* process_context.                                                        *)

\* The fields of the running process_context frame.
SetResult(M, result) == [M EXCEPT !.stack[Len(M.stack)].result = result]

\* NextItem with the next item processed against the active context given
\* to the call instead of the result built so far.
NextItemActiveContext(M) ==
    [M EXCEPT !.stack[Len(M.stack)].i = @ + 1,
              !.stack[Len(M.stack)].pc = "item",
              !.stack[Len(M.stack)].history = Append(@, Top(M).result),
              !.stack[Len(M.stack)].result = Top(M).active_context]

\* The for loop over the items goes on with the next item.
NextItem(M) ==
    [M EXCEPT !.stack[Len(M.stack)].i = @ + 1,
              !.stack[Len(M.stack)].pc = "item",
              !.stack[Len(M.stack)].history = Append(@, Top(M).result)]

\* 5.13: the for loop over the entries of the context goes on to the next
\* key that is a term, and define is called for it.
IsContextKeyword(key) ==
    key \in {Keyword.Base, Keyword.Direction, Keyword.Import, Keyword.Language, Keyword.Propagate,
             Keyword.Protected, Keyword.Version, Keyword.Vocab}

ProcessNextTerm(M) ==
    LET f == Top(M)
        rest == {n \in f.j..Len(f.keys) : ~IsContextKeyword(f.keys[n].key)}
        next == CHOOSE n \in rest : \A m \in rest : n <= m
    IN  IF rest = {} THEN NextItem(M)
        ELSE Call(SetTop(M, [f EXCEPT !.j = next + 1]), "after_define",
                  DefineFrame(f.keys[next].key, f.remote_contexts, f.base_url,
                              f.protected, f.options))

\* ProcessAfterDefine without the `?`: the loop goes on after an error.
ProcessAfterDefineLenient(M) == Go("ProcessNextTerm", M)

\* define returned to the for loop of 5.13.
ProcessAfterDefine(M) ==
    IF Failed(M) THEN Return(M, M.ret) ELSE Go("ProcessNextTerm", M)

\* 5.12: a fresh `defined` map, the protected default of the context, and
\* the iterator of the for loop over its entries.
ProcessTermsInit(M) ==
    LET f == Top(M)
        p == LocalContextObject_get(f.context, Keyword.Protected)
    IN  Go("ProcessNextTerm",
            SetTop(M, [f EXCEPT !.defined = <<>>,
                                !.commits = <<>>,
                                !.protected = IF IsSome(p) /\ IsSome(as_bool(p.v))
                                              THEN as_bool(p.v).v ELSE FALSE,
                                !.keys = LocalContextObject_iter(f.context),
                                !.j = 1]))

\* 5.10: the @direction entry.
ProcessDirection(M) ==
    LET f == Top(M)
        value == LocalContextObject_get(f.context, Keyword.Direction)
        with(d) == Go("ProcessTermsInit",
                       SetResult(M, [f.result EXCEPT !.default_base_direction = d]))
    IN  IF IsNone(value) THEN Go("ProcessTermsInit", M)
        ELSE IF f.options.processing_mode = "1.0"
             THEN Return(M, Err("InvalidContextEntry"))
        ELSE IF is_null(value.v) THEN with(None)
        ELSE IF as_str(value.v) = Some(Ltr) THEN with(Some(Ltr))
        ELSE IF as_str(value.v) = Some(Rtl) THEN with(Some(Rtl))
        ELSE Return(M, Err("InvalidBaseDirection"))

\* ProcessLanguage with a malformed language tag refused.
ProcessLanguageStrict(M) ==
    LET f == Top(M)
        value == LocalContextObject_get(f.context, Keyword.Language)
        with(N, l) == Go("ProcessDirection",
                          SetResult(N, [f.result EXCEPT !.default_language = l]))
    IN  IF IsNone(value) THEN Go("ProcessDirection", M)
        ELSE IF is_null(value.v) THEN with(M, None)
        ELSE IF value.v.k = "string" /\ IsLanguageTag(value.v.v)
             THEN with(M, Some(value.v.v))
        ELSE Return(M, Err("InvalidDefaultLanguage"))

\* 5.9: the @language entry.
ProcessLanguage(M) ==
    LET f == Top(M)
        value == LocalContextObject_get(f.context, Keyword.Language)
        with(N, l) == Go("ProcessDirection",
                          SetResult(N, [f.result EXCEPT !.default_language = l]))
    IN  IF IsNone(value) THEN Go("ProcessDirection", M)
        ELSE IF is_null(value.v) THEN with(M, None)
        ELSE IF value.v.k = "string"
             THEN IF IsLanguageTag(value.v.v) THEN with(M, Some(value.v.v))
                  ELSE with(Warn(M, "MalformedLanguageTag", value.v.v), Some(value.v.v))
        ELSE Return(M, Err("InvalidDefaultLanguage"))

\* 5.8: the @vocab entry.
ProcessVocab(M) ==
    LET f == Top(M)
        value == LocalContextObject_get(f.context, Keyword.Vocab)
        e == expansion_expand_iri(f.result, value.v.v, TRUE, TRUE)
        W == [M EXCEPT !.warnings = M.warnings \o e.warns]
    IN  IF IsNone(value) THEN Go("ProcessLanguage", M)
        ELSE IF is_null(value.v)
             THEN Go("ProcessLanguage", SetResult(M, [f.result EXCEPT !.vocabulary = None]))
        ELSE IF value.v.k = "string"
             THEN IF IsRef(e.term)
                  THEN Go("ProcessLanguage",
                           SetResult(W, [f.result EXCEPT !.vocabulary = Some(e.term)]))
                  ELSE Return(W, Err("InvalidVocabMapping"))
        ELSE Return(M, Err("InvalidVocabMapping"))

\* 5.7: the @base entry, of a context that is not a remote context.
ProcessBase(M) ==
    LET f == Top(M)
        value == LocalContextObject_get(f.context, Keyword.Base)
        resolved == resolve_iri(value.v.v, f.result.base_iri)
        with(b) == Go("ProcessVocab", SetResult(M, [f.result EXCEPT !.base_iri = b]))
    IN  IF ~ProcessingStack_is_empty(f.remote_contexts) \/ IsNone(value)
        THEN Go("ProcessVocab", M)
        ELSE IF is_null(value.v) THEN with(None)
        ELSE IF value.v.k = "string"
             THEN IF ~IsIriRef(value.v.v) THEN Return(M, Err("InvalidBaseIri"))
                  ELSE IF IsIri(value.v.v) THEN with(Some(value.v.v))
                  ELSE IF IsNone(resolved) THEN Return(M, Err("InvalidBaseIri"))
                  ELSE with(resolved)
        ELSE Return(M, Err("InvalidBaseIri"))

\* ProcessAfterImport without the check that the imported context imports
\* nothing.
ProcessAfterImportNested(M) ==
    LET f == Top(M)
        doc == load_context(f.pending)
        L == [M EXCEPT !.loads = Append(M.loads, f.pending)]
        context == f.items[f.i].v
    IN  IF doc.k = "err" THEN Return(L, doc)
        ELSE IF doc.v.context.k # "object"
             THEN Return(L, Err("InvalidRemoteContext"))
        ELSE Go("ProcessBase",
                 SetTop(L, [f EXCEPT !.context =
                     merge_with(LocalContextObject_new(doc.v.context.v), context)]))

\* 5.6.4: the imported document is there: its context must be an object
\* without @import; the importing object is merged over it.
ProcessAfterImport(M) ==
    LET f == Top(M)
        doc == load_context(f.pending)
        L == [M EXCEPT !.loads = Append(M.loads, f.pending)]
        context == f.items[f.i].v
    IN  IF doc.k = "err" THEN Return(L, doc)
        ELSE IF doc.v.context.k # "object"
             THEN Return(L, Err("InvalidRemoteContext"))
        ELSE IF ObjHas(doc.v.context.v, Keyword.Import)
             THEN Return(L, Err("InvalidContextEntry"))
        ELSE Go("ProcessBase",
                 SetTop(L, [f EXCEPT !.context =
                     merge_with(LocalContextObject_new(doc.v.context.v), context)]))

\* 5.6: the @import entry, up to the call of the loader.
ProcessImport(M) ==
    LET f == Top(M)
        context == f.items[f.i].v
        import_value == ObjGet(context, Keyword.Import)
        import == resolve_iri(import_value.v.v, f.base_url)
    IN  IF IsNone(import_value)
        THEN Go("ProcessBase", SetTop(M, [f EXCEPT !.context = LocalContextObject_new(context)]))
        ELSE IF f.options.processing_mode = "1.0"
             THEN Return(M, Err("InvalidContextEntry"))
        ELSE IF import_value.v.k # "string"
             THEN Return(M, Err("InvalidImportValue"))
        ELSE IF ~IsIriRef(import_value.v.v) \/ IsNone(import)
             THEN Return(M, Err("InvalidImportValue"))
        ELSE SetTop(M, [f EXCEPT !.pending = import.v, !.pc = "import"])

\* 5.5: the @version entry of an object item; then 5.6.
ProcessObjectItem(M) ==
    LET f == Top(M)
        context == f.items[f.i].v
        version_value == ObjGet(context, Keyword.Version)
    IN  IF IsSome(version_value) /\ version_value.v # JNum(11)
        THEN Return(M, Err("InvalidVersionValue"))
        ELSE IF IsSome(version_value) /\ f.options.processing_mode = "1.0"
             THEN Return(M, Err("ProcessingModeConflict"))
        ELSE Go("ProcessImport", M)


\* ProcessNullItem that starts the new context from the current base IRI
\* of `result`.
ProcessNullItemCurrentBase(M) ==
    LET f == Top(M)
        previous_result == f.result
        fresh == Context_new(f.result.base_iri)
    IN  IF ~f.options.override_protected /\ has_protected_items(f.result)
        THEN Return(M, Err("InvalidContextNullification"))
        ELSE NextItem(SetResult(M,
                 IF ~f.options.propagate
                 THEN [fresh EXCEPT !.previous_context = Some(previous_result)]
                 ELSE fresh))

\* ProcessNullItem that looks for protected terms in the active context
\* given to the call.
ProcessNullItemActiveContext(M) ==
    LET f == Top(M)
        previous_result == f.result
        fresh == Context_new(f.active_context.original_base_url)
    IN  IF ~f.options.override_protected /\ has_protected_items(f.active_context)
        THEN Return(M, Err("InvalidContextNullification"))
        ELSE NextItem(SetResult(M,
                 IF ~f.options.propagate
                 THEN [fresh EXCEPT !.previous_context = Some(previous_result)]
                 ELSE fresh))

\* 5.1: a null item.
ProcessNullItem(M) ==
    LET f == Top(M)
        previous_result == f.result
        fresh == Context_new(f.active_context.original_base_url)
    IN  IF ~f.options.override_protected /\ has_protected_items(f.result)
        THEN Return(M, Err("InvalidContextNullification"))
        ELSE NextItem(SetResult(M,
                 IF ~f.options.propagate
                 THEN [fresh EXCEPT !.previous_context = Some(previous_result)]
                 ELSE fresh))

\* 5.2: a string item, up to the call of the loader.
ProcessStringItem(M) ==
    LET f == Top(M)
        context_str == f.items[f.i].v
        context_iri == resolve_iri(context_str, f.base_url)
        pushed == ProcessingStack_push(f.remote_contexts, context_iri.v)
    IN  IF ~IsIriRef(context_str) \/ IsNone(context_iri)
        THEN Return(M, Err("LoadingDocumentFailed"))
        ELSE IF pushed.ok
             THEN SetTop(M, [f EXCEPT !.remote_contexts = pushed.stack,
                                      !.pending = context_iri.v,
                                      !.pc = "load"])
        ELSE NextItem(M)

\* One round of the for loop of step 5, or the end of the function.
ProcessItem(M) ==
    LET f == Top(M)
        context == f.items[f.i]
    IN  IF f.i > Len(f.items) THEN Return(M, Ok(f.result))
        ELSE CASE context.k = "null" -> Go("ProcessNullItem", M)
               [] context.k = "string" -> Go("ProcessStringItem", M)
               [] context.k = "object" -> Go("ProcessObjectItem", M)
               [] OTHER -> Return(M, Err("InvalidLocalContext"))

\* Steps 1 to 4.
ProcessStart(M) ==
    LET f == Top(M)
        propagate_value ==
            IF f.local_context.k = "object"
            THEN ObjGet(f.local_context.v, Keyword.Propagate) ELSE None
        options == IF IsSome(propagate_value) /\ propagate_value.v.k = "bool"
                   THEN [f.options EXCEPT !.propagate = propagate_value.v.v]
                   ELSE f.options
        result == IF ~options.propagate /\ IsNone(f.active_context.previous_context)
                  THEN [f.active_context EXCEPT
                            !.previous_context = Some(f.active_context)]
                  ELSE f.active_context
    IN  IF IsSome(propagate_value) /\ f.options.processing_mode = "1.0"
        THEN Return(M, Err("InvalidContextEntry"))
        ELSE IF IsSome(propagate_value) /\ propagate_value.v.k # "bool"
             THEN Return(M, Err("InvalidPropagateValue"))
        ELSE SetTop(M, [f EXCEPT !.options = options,
                                 !.result = result,
                                 !.items = as_array(f.local_context),
                                 !.i = 1,
                                 !.history = <<result>>,
                                 !.pc = "item"])

---------------------------------------------------------------------------
(* process_full: process_context with a warnings Vec of its own.           *)

ProcessFullFrame(active_context, local_context, remote_contexts, base_url, options) ==
    [fn |-> "process_full", pc |-> "enter",
     active_context |-> active_context, local_context |-> local_context,
     remote_contexts |-> remote_contexts, base_url |-> base_url,
     options |-> options, outer_warnings |-> <<>>]

\* Processed::with_warnings
Processed(context, warns) == [context |-> context, warnings |-> warns]

\* let mut warnings = Vec::new(); process_context(...)
ProcessFullEnter(M) ==
    LET f == Top(M)
    IN  Call([SetTop(M, [f EXCEPT !.outer_warnings = M.warnings])
                 EXCEPT !.warnings = <<>>],
             "after",
             ProcessContextFrame(f.active_context, f.local_context,
                                 f.remote_contexts, f.base_url, f.options))

\* The end of process_full.  The Vec is dropped with the call: its content
\* is in the value returned, or lost with an error.  The outermost call
\* stays on the stack, finished.
ProcessFullAfter(M) ==
    LET f == Top(M)
        r == IF Failed(M) THEN M.ret
             ELSE Ok(Processed(M.ret.v, M.warnings))
        N == [M EXCEPT !.warnings = f.outer_warnings]
    IN  IF Len(M.stack) = 1
        THEN [SetTop(N, [f EXCEPT !.pc = "done"]) EXCEPT !.ret = r]
        ELSE Return(N, r)

\* LoadRemoteContext with the options of the caller handed on.
LoadRemoteContextCallerOptions(M) ==
    LET f == Top(M)
        context_document == load_context(f.pending)
        L == [M EXCEPT !.loads = Append(M.loads, f.pending)]
    IN  IF context_document.k = "err" THEN Return(L, context_document)
        ELSE Call(L, "after_remote",
                  ProcessFullFrame(f.result, context_document.v.context,
                                   f.remote_contexts,
                                   Some(context_document.v.url), f.options))

\* 5.2.5: the loader is awaited, and the algorithm is called on the loaded
\* context with a copy of the remote contexts.
LoadRemoteContext(M) ==
    LET f == Top(M)
        context_document == load_context(f.pending)
        L == [M EXCEPT !.loads = Append(M.loads, f.pending)]
        new_options == Options(f.options.processing_mode, FALSE, TRUE)
    IN  IF context_document.k = "err" THEN Return(L, context_document)
        ELSE Call(L, "after_remote",
                  ProcessFullFrame(f.result, context_document.v.context,
                                   f.remote_contexts,
                                   Some(context_document.v.url), new_options))

\* result = ...process_full(...).await?.into_inner()
AfterRemoteContext(M) ==
    IF Failed(M) THEN Return(M, M.ret)
    ELSE NextItem(SetResult(M, M.ret.v.context))

---------------------------------------------------------------------------
(* The stretches of straight-line code are run one after the other, up to  *)
(* the next call, loader await or return.                                  *)

Stretches ==
    {"DefineCommit",
     "DefineKnownEntries",
     "DefinePrefixEntry",
     "DefineNestEntry",
     "DefineDirectionEntry",
     "DefineLanguageEntry",
     "DefineContextEntry",
     "DefineIndexEntry",
     "DefineContainerEntry",
     "DefineSimpleTermPrefix",
     "DefineWithoutId",
     "DefineIdEntry",
     "DefineReverseEntry",
     "DefineTypeEntry",
     "DefineProtectedEntry",
     "ProcessNextTerm",
     "ProcessTermsInit",
     "ProcessDirection",
     "ProcessLanguage",
     "ProcessVocab",
     "ProcessBase",
     "ProcessImport",
     "ProcessObjectItem",
     "ProcessNullItem",
     "ProcessStringItem"}

Stretch(M) ==
    CASE Top(M).pc = "DefineCommit" -> DefineCommit(M)
      [] Top(M).pc = "DefineKnownEntries" -> DefineKnownEntries(M)
      [] Top(M).pc = "DefinePrefixEntry" -> DefinePrefixEntry(M)
      [] Top(M).pc = "DefineNestEntry" -> DefineNestEntry(M)
      [] Top(M).pc = "DefineDirectionEntry" -> DefineDirectionEntry(M)
      [] Top(M).pc = "DefineLanguageEntry" -> DefineLanguageEntry(M)
      [] Top(M).pc = "DefineContextEntry" -> DefineContextEntry(M)
      [] Top(M).pc = "DefineIndexEntry" -> DefineIndexEntry(M)
      [] Top(M).pc = "DefineContainerEntry" -> DefineContainerEntry(M)
      [] Top(M).pc = "DefineSimpleTermPrefix" -> DefineSimpleTermPrefix(M)
      [] Top(M).pc = "DefineWithoutId" -> DefineWithoutId(M)
      [] Top(M).pc = "DefineIdEntry" -> DefineIdEntry(M)
      [] Top(M).pc = "DefineReverseEntry" -> DefineReverseEntry(M)
      [] Top(M).pc = "DefineTypeEntry" -> DefineTypeEntry(M)
      [] Top(M).pc = "DefineProtectedEntry" -> DefineProtectedEntry(M)
      [] Top(M).pc = "ProcessNextTerm" -> ProcessNextTerm(M)
      [] Top(M).pc = "ProcessTermsInit" -> ProcessTermsInit(M)
      [] Top(M).pc = "ProcessDirection" -> ProcessDirection(M)
      [] Top(M).pc = "ProcessLanguage" -> ProcessLanguage(M)
      [] Top(M).pc = "ProcessVocab" -> ProcessVocab(M)
      [] Top(M).pc = "ProcessBase" -> ProcessBase(M)
      [] Top(M).pc = "ProcessImport" -> ProcessImport(M)
      [] Top(M).pc = "ProcessObjectItem" -> ProcessObjectItem(M)
      [] Top(M).pc = "ProcessNullItem" -> ProcessNullItem(M)
      [] Top(M).pc = "ProcessStringItem" -> ProcessStringItem(M)

RECURSIVE Run(_)
Run(M) ==
    IF Len(M.stack) > 0 /\ Top(M).pc \in Stretches THEN Run(Stretch(M)) ELSE M

---------------------------------------------------------------------------
(* The local contexts a run starts from.                                   *)

\* { "@protected": true, "name": "h://a/" }
ProtectedName == Obj2(Keyword.Protected, JBool(TRUE), TermName, JStr(IriA))

Arr2(x, y) == JArr(<<x, y>>)
Arr3(x, y, z) == JArr(<<x, y, z>>)

\* Items that follow ProtectedName in a context array.
SecondItems ==
    << Obj1(TermName, JStr(IriA)),
       Obj1(TermName, JStr(IriB)),
       Obj1(TermName, JStr(TermFoo)),
       Obj1(TermName, Obj1(Keyword.Reverse, JStr(TermFoo))),
       Obj1(TermName, Obj1(Keyword.Reverse, JStr(IriA))),
       Obj1(TermName, JNull),
       Obj1(TermName, Obj1(Keyword.Id, JStr(IriA))),
       Obj1(TermName, Obj2(Keyword.Id, JStr(IriA), Keyword.Prefix, JBool(TRUE))),
       Obj1(TermName, Obj3(Keyword.Id, JStr(IriA), Keyword.Prefix, JBool(TRUE),
                           Keyword.Protected, JBool(FALSE))),
       Obj2(Keyword.Protected, JBool(FALSE), TermName, JStr(IriA)),
       Obj1(TermOther, JStr(IriB)),
       Obj1(TermT, Obj2(Keyword.Id, JStr(IriXT),
                        Keyword.Context, Obj1(TermName, JStr(IriB)))),
       JNull,
       JStr(UrlS),
       JStr(UrlSame),
       Obj1(Keyword.Import, JStr(UrlS)),
       JNum(5) >>

\* { "@protected": true, "name": { "@reverse": "h://a/" } }
ProtectedReverse ==
    Obj2(Keyword.Protected, JBool(TRUE), TermName, Obj1(Keyword.Reverse, JStr(IriA)))

ProtectedContexts ==
    [n \in 1..Len(SecondItems) |-> Arr2(ProtectedName, SecondItems[n])]
        \o << Arr2(ProtectedReverse, Obj1(TermName, Obj1(Keyword.Reverse, JStr(IriA)))),
               Arr2(ProtectedReverse, Obj1(TermName, Obj1(Keyword.Reverse, JStr(IriB)))),
               Arr3(ProtectedName, Obj1(TermName, JStr(TermFoo)),
                    Obj1(TermName, JStr(IriB))) >>

TermContexts ==
    << Obj1(TermName, JStr(IriA)),
       ProtectedName,
       Obj2(TermA, JStr(TermB), TermB, JStr(TermA)),
       Obj2(TermA, JStr(TermBY), TermB, JStr(TermAX)),
       Obj2(TermA, Obj2(Keyword.Id, JStr(IriA), Keyword.Type, JStr(TermB)),
            TermB, Obj2(Keyword.Id, JStr(IriB), Keyword.Type, JStr(TermA))),
       Obj2(TermA, Obj1(Keyword.Reverse, JStr(TermB)),
            TermB, Obj1(Keyword.Reverse, JStr(TermA))),
       Obj1(TermA, JStr(TermA)),
       Obj2(TermT, JStr(TermPX), TermP, JStr(IriA)),
       Obj2(TermP, JStr(IriA), TermT, JStr(TermPX)),
       Obj2(TermPX, Obj1(Keyword.Type, JStr(Keyword.Id)), TermP, JStr(IriA)),
       Obj3(TermA, JStr(TermB), TermB, JStr(TermC), TermC, JStr(IriA)),
       Obj2(TermPX, JStr(IriPX), TermP, JStr(IriA)),
       JObj(<<Entry(TermT, JStr(TermPX)), Entry(TermP, JStr(IriA)),
              Entry(TermA, JStr(TermB)), Entry(TermB, JStr(TermA))>>),
       Obj2(TermPX, JStr(IriB), TermP, JStr(IriA)),
       Obj1(Keyword.Id, JStr(IriA)),
       Obj1(TermFoo, JStr(IriA)),
       Obj1(Keyword.Type, Obj1(Keyword.Container, JStr(Keyword.Set))),
       Obj1(TermA, Obj2(Keyword.Id, JStr(IriA),
                        Keyword.Container, JArr(<<JStr(Keyword.Graph), JStr(Keyword.Set), JStr(Keyword.Index)>>))),
       Obj1(TermA, Obj2(Keyword.Id, JNull, Keyword.Prefix, JBool(TRUE))),
       Obj1(TermA, Obj2(Keyword.Id, JStr(IriA), TermB, JStr(IriB))),
       Obj1(TermA, Obj2(Keyword.Reverse, JStr(IriA), Keyword.Container, JStr(Keyword.Set))),
       Obj1(TermA, Obj2(Keyword.Id, JStr(IriA), Keyword.Language, JStr(LangEn))),
       Obj1(TermA, Obj2(Keyword.Id, JStr(IriA), Keyword.Nest, JStr(TermB))),
       Obj1(TermA, Obj3(Keyword.Id, JStr(IriA), Keyword.Container, JStr(Keyword.Index),
                        Keyword.Index, JStr(TermB))),
       Obj1(TermA, Obj2(Keyword.Id, JStr(IriA), Keyword.Direction, JStr(Rtl))),
       Obj1(TermA, JNum(5)),
       Obj1(<<>>, JStr(IriA)) >>

ContextEntryContexts ==
    << Obj3(Keyword.Base, JStr(IriA), Keyword.Vocab, JStr(IriV), Keyword.Language, JStr(LangEn)),
       Obj2(Keyword.Vocab, JStr(IriV), TermA, JStr(TermB)),
       Obj1(Keyword.Language, JStr(LangBad)),
       Obj1(Keyword.Direction, JStr(Ltr)),
       Obj1(Keyword.Direction, JStr(LangEn)),
       Obj1(Keyword.Version, JNum(11)),
       Obj1(Keyword.Version, JNum(10)),
       Obj2(Keyword.Propagate, JBool(FALSE), TermName, JStr(IriA)),
       Obj1(Keyword.Propagate, JStr(LangEn)),
       Obj1(Keyword.Base, JStr(TermA)),
       Obj1(Keyword.Vocab, JNum(5)),
       JNull,
       JNum(5),
       JArr(<<>>),
       Arr3(Obj1(TermName, JStr(IriA)), JNull, Obj1(TermOther, JStr(IriB))),
       Arr3(JObj(<<Entry(Keyword.Base, JStr(IriA)), Entry(Keyword.Vocab, JStr(IriV)),
                   Entry(Keyword.Language, JStr(LangEn)), Entry(Keyword.Direction, JStr(Rtl)),
                   Entry(TermName, JStr(IriA))>>),
            JNull, Obj1(TermOther, JStr(IriB))),
       Arr2(Obj1(TermName, JStr(IriA)), JNull) >>

RemoteContexts ==
    << JStr(UrlS),
       JStr(UrlA1),
       JStr(UrlA2),
       JStr(UrlA3),
       JStr(UrlA4),
       JStr(UrlLoop),
       Obj1(Keyword.Import, JStr(UrlLoop)),
       JStr(UrlSelf),
       JStr(UrlNoContext),
       JStr(UrlMissing),
       JStr(ChainUrl(1)),
       Arr2(JStr(UrlS), JStr(UrlS)),
       Obj1(Keyword.Import, JStr(UrlS)),
       Obj2(Keyword.Import, JStr(UrlS), TermName, JStr(IriA)),
       Obj1(Keyword.Import, JStr(UrlSelf)),
       Obj1(Keyword.Import, JNum(5)),
       JStr(<<"s">>),
       JStr(<<" ">>) >>

\* Arrays whose later items depend on what the earlier items set.
OrderContexts ==
    << Arr2(Obj1(Keyword.Vocab, JStr(IriV)), Obj1(TermA, JStr(TermB))),
       Arr2(Obj1(TermName, JStr(IriA)), Obj1(TermName, JStr(IriB))),
       Arr2(Obj1(TermP, JStr(IriA)), Obj1(TermT, JStr(TermPX))),
       Arr2(Obj1(Keyword.Base, JStr(IriA)), Obj1(Keyword.Base, JStr(<<"x">>))),
       Arr2(Obj1(Keyword.Language, JStr(LangEn)), Obj1(Keyword.Vocab, JStr(IriV))),
       Arr3(Obj1(TermName, JStr(IriA)), Obj1(TermName, JStr(IriB)),
            Obj1(TermOther, JStr(TermName))) >>

\* Keywords, their aliases and strings of the form of a keyword as values.
KeywordContexts ==
    << Obj2(TermC, JStr(Keyword.Id),
            TermA, Obj2(Keyword.Id, JStr(IriA), Keyword.Type, JStr(TermC))),
       Obj2(TermC, JStr(Keyword.Type), TermA, JStr(TermC)),
       Obj1(TermA, Obj2(Keyword.Id, JStr(IriA), Keyword.Type, JStr(TermFoo))),
       Obj1(TermA, Obj2(Keyword.Id, JStr(IriA), Keyword.Type, JStr(Keyword.Vocab))),
       Obj2(TermC, JStr(Keyword.Type), TermA, JStr(<<"c",":","x">>)) >>

\* Keywords as terms.
KeywordTermContexts ==
    << Obj1(Keyword.Type, Obj1(Keyword.Protected, JBool(TRUE))),
       Obj1(Keyword.Type, Obj2(Keyword.Container, JStr(Keyword.Set),
                               Keyword.Protected, JBool(TRUE))),
       Obj1(Keyword.Type, JObj(<<>>)),
       Obj1(Keyword.Type, Obj1(Keyword.Container, JStr(Keyword.List))),
       Obj1(Keyword.Type, Obj2(Keyword.Container, JStr(Keyword.Set),
                               Keyword.Id, JStr(IriA))),
       Obj1(Keyword.Type, JStr(IriA)),
       Obj1(Keyword.Type, JNull),
       Obj1(Keyword.Type, Obj1(Keyword.Protected, JNum(5))),
       Obj1(Keyword.Graph, JStr(IriA)),
       Obj1(Keyword.Context, Obj1(Keyword.Id, JStr(IriA))),
       Obj1(Keyword.Value, JNull),
       Obj2(Keyword.Id, JStr(IriA), TermA, JStr(<<"@","i","d",":","x">>)),
       Obj1(TermA, JStr(<<"@","i","d",":","x">>)),
       Arr2(Obj1(Keyword.Type, Obj1(Keyword.Protected, JBool(TRUE))),
            Obj1(Keyword.Type, Obj1(Keyword.Container, JStr(Keyword.Set)))) >>

\* A violation followed by items, terms and remote contexts.
ErrorContexts ==
    << Arr3(Obj1(TermName, JStr(IriA)), Obj1(Keyword.Vocab, JNum(5)), JStr(UrlS)),
       Obj2(TermA, Obj1(Keyword.Id, JNum(5)), TermB, JStr(IriB)),
       Arr2(JStr(UrlMissing), JStr(UrlS)),
       Obj2(TermT, Obj2(Keyword.Id, JStr(IriXT), Keyword.Context, Obj1(TermA, JNum(5))),
            TermB, JStr(IriB)),
       Arr2(JStr(UrlA1), JStr(UrlS)) >>

\* A string that is no IRI reference.
IriBad == <<"x"," ","y">>

\* Contexts that raise warnings and break no rule.
WarningContexts ==
    << Obj3(TermFoo, JStr(IriA), TermName, JStr(IriB), TermOther, JStr(IriA)),
       Obj2(TermName, JStr(TermFoo), TermOther, JStr(IriB)),
       Obj2(TermName, Obj1(Keyword.Id, JStr(TermFoo)), TermOther, JStr(IriB)),
       Obj2(TermName, Obj1(Keyword.Reverse, JStr(TermFoo)), TermOther, JStr(IriB)),
       Obj2(Keyword.Language, JStr(LangBad), TermName, JStr(IriA)),
       Obj2(Keyword.Vocab, JStr(IriBad), TermName, JStr(IriA)),
       Obj2(TermA, Obj2(Keyword.Id, JStr(IriA), Keyword.Language, JStr(LangBad)),
            TermOther, JStr(IriB)),
       JObj(<<Entry(Keyword.Language, JStr(LangBad)), Entry(Keyword.Vocab, JStr(IriBad)),
              Entry(TermFoo, JStr(IriA)), Entry(TermName, JStr(TermFoo)),
              Entry(TermA, Obj1(Keyword.Reverse, JStr(TermFoo))),
              Entry(TermOther, JStr(IriB))>>) >>

\* Contexts with @base entries: alone, null, relative, in a remote context,
\* and in an inline object before and after other items.
BaseContexts ==
    << Obj1(Keyword.Base, JStr(IriA)),
       Obj1(Keyword.Base, JNull),
       Obj1(Keyword.Base, JStr(<<"x">>)),
       JStr(UrlBase),
       Arr2(Obj1(TermName, JStr(IriB)), Obj1(Keyword.Base, JStr(IriA))),
       Arr2(Obj1(Keyword.Base, JStr(IriA)), JStr(UrlS)),
       Arr2(JStr(UrlS), Obj1(Keyword.Base, JStr(IriA))),
       Arr2(JStr(UrlBase), Obj1(Keyword.Base, JNull)),
       Arr2(JNull, Obj1(Keyword.Base, JStr(IriA))) >>

\* Object contexts with @protected true: terms in either order, terms that
\* another term's definition refers to before the loop reaches them, and
\* terms with an @protected entry of their own.
ProtectedDefaultContexts ==
    << Obj3(Keyword.Protected, JBool(TRUE), TermP, JStr(IriA), TermT, JStr(TermPX)),
       Obj3(Keyword.Protected, JBool(TRUE), TermT, JStr(TermPX), TermP, JStr(IriA)),
       Obj3(Keyword.Protected, JBool(TRUE), TermA, JStr(TermB), TermB, JStr(IriA)),
       Obj3(TermB, JStr(IriA), TermA, JStr(TermB), Keyword.Protected, JBool(TRUE)),
       Obj3(Keyword.Protected, JBool(TRUE),
            TermA, Obj2(Keyword.Id, JStr(IriA), Keyword.Protected, JBool(FALSE)),
            TermB, JStr(IriB)),
       Obj3(Keyword.Protected, JBool(TRUE),
            TermA, Obj2(Keyword.Id, JStr(IriA), Keyword.Type, JStr(TermB)),
            TermB, JStr(IriB)) >>

\* Object contexts with an @vocab entry: null, an IRI, a blank node
\* identifier, a relative reference, a keyword, a string of the form of a
\* keyword, no IRI reference, and values that are not strings.
VocabContexts ==
    << Obj1(Keyword.Vocab, JNull),
       Obj1(Keyword.Vocab, JStr(IriV)),
       Obj1(Keyword.Vocab, JStr(<<"_",":","b">>)),
       Obj1(Keyword.Vocab, JStr(<<"x">>)),
       Obj1(Keyword.Vocab, JStr(Keyword.Id)),
       Obj1(Keyword.Vocab, JStr(TermFoo)),
       Obj1(Keyword.Vocab, JStr(IriBad)),
       Obj1(Keyword.Vocab, JNum(5)),
       Obj1(Keyword.Vocab, JBool(TRUE)),
       Obj2(Keyword.Vocab, JStr(IriV), TermA, JStr(TermB)),
       Obj2(Keyword.Vocab, JStr(IriBad), TermA, JStr(TermB)) >>

\* Arrays that refer to the same remote context from sibling positions.
SiblingContexts ==
    << Arr3(JStr(UrlS), Obj1(TermName, JStr(IriA)), JStr(UrlS)),
       Arr3(JStr(UrlS), JStr(UrlSame), JStr(UrlS)),
       Arr2(JStr(UrlS), Obj1(TermT, Obj2(Keyword.Id, JStr(IriXT), Keyword.Context, JStr(UrlS)))) >>

\* The definitions of `name` as a reverse property: valid ones, with @id or
\* @nest, with each kind of @container, with @reverse values that are not
\* strings or expand to no IRI, and with later entries that are not valid.
ReverseValues ==
    << Obj1(Keyword.Reverse, JStr(IriA)),
       Obj1(Keyword.Reverse, JStr(<<"_",":","b">>)),
       Obj2(Keyword.Reverse, JStr(IriA), Keyword.Id, JStr(IriB)),
       Obj2(Keyword.Reverse, JStr(IriA), Keyword.Nest, JStr(Keyword.Nest)),
       Obj2(Keyword.Reverse, JStr(IriA), Keyword.Container, JStr(Keyword.Set)),
       Obj2(Keyword.Reverse, JStr(IriA), Keyword.Container, JStr(Keyword.Index)),
       Obj2(Keyword.Reverse, JStr(IriA), Keyword.Container, JNull),
       Obj2(Keyword.Reverse, JStr(IriA), Keyword.Container, JStr(Keyword.List)),
       Obj2(Keyword.Reverse, JStr(IriA), Keyword.Container, JArr(<<JStr(Keyword.Set)>>)),
       Obj1(Keyword.Reverse, JNum(5)),
       Obj1(Keyword.Reverse, JStr(IriBad)),
       Obj1(Keyword.Reverse, JStr(<<"x">>)),
       Obj1(Keyword.Reverse, JStr(TermFoo)),
       Obj1(Keyword.Reverse, JStr(Keyword.Id)),
       Obj2(Keyword.Reverse, JStr(IriA), Keyword.Language, JNum(5)),
       Obj2(Keyword.Reverse, JStr(IriA), Keyword.Prefix, JNum(5)),
       Obj2(Keyword.Container, JStr(Keyword.Set), Keyword.Reverse, JStr(IriA)) >>

ReverseContexts == [n \in 1..Len(ReverseValues) |-> Obj1(TermName, ReverseValues[n])]

\* Contexts with @propagate entries, boolean or not, in an object that is
\* the local context itself or an item of a context array.
PropagateContexts ==
    << Obj2(Keyword.Propagate, JBool(FALSE), TermName, JStr(IriA)),
       Obj2(Keyword.Propagate, JBool(TRUE), TermName, JStr(IriA)),
       Obj1(Keyword.Propagate, JNum(5)),
       Obj1(Keyword.Propagate, JNull),
       Obj1(TermT, Obj2(Keyword.Id, JStr(IriXT),
                        Keyword.Context, Obj2(Keyword.Propagate, JBool(FALSE),
                                              TermName, JStr(IriB)))),
       JArr(<<Obj2(Keyword.Propagate, JBool(FALSE), TermName, JStr(IriA))>>),
       JArr(<<Obj1(Keyword.Propagate, JNum(5))>>),
       Arr2(Obj1(TermName, JStr(IriA)), Obj1(Keyword.Propagate, JStr(LangEn))) >>

\* A scoped context that sets a term, the vocabulary mapping, the base IRI
\* and the default language.
ScopedRich ==
    JObj(<<Entry(TermName, JStr(IriB)), Entry(Keyword.Vocab, JStr(IriV)),
           Entry(Keyword.Base, JStr(IriA)), Entry(Keyword.Language, JStr(LangEn))>>)

\* The definition of t with a scoped context.
Scoped(context) == Obj1(TermT, Obj2(Keyword.Id, JStr(IriXT), Keyword.Context, context))

\* Term definitions with scoped contexts: one that sets everything, ones
\* that fail, remote ones, and one that redefines a protected term.
ScopedContexts ==
    << Scoped(ScopedRich),
       Scoped(Obj1(TermName, JNum(5))),
       Scoped(JStr(UrlS)),
       Scoped(JStr(UrlMissing)),
       Scoped(JNum(5)),
       Arr2(ProtectedName, Scoped(Obj1(TermName, JStr(IriB)))),
       Scoped(JNull) >>

\* A term that ends in a gen-delim.
TermAQ == <<"a","?">>

\* Definitions whose prefix flag is at stake: maps with and without
\* @prefix, plain strings whose mapping ends in a gen-delim, is a blank
\* node identifier or neither, a plain string equal to its term, a reverse
\* property with @prefix, and a compact IRI that uses each kind of term.
PrefixContexts ==
    << Obj2(TermP, Obj1(Keyword.Id, JStr(IriA)), TermT, JStr(TermPX)),
       Obj2(TermP, Obj2(Keyword.Id, JStr(IriA), Keyword.Prefix, JBool(TRUE)),
            TermT, JStr(TermPX)),
       Obj2(TermP, JStr(IriA), TermT, JStr(TermPX)),
       Obj1(TermP, Obj2(Keyword.Id, JStr(IriA), Keyword.Prefix, JBool(FALSE))),
       Obj1(TermA, JStr(<<"_",":","b">>)),
       Obj1(TermA, JStr(IriXT)),
       Obj1(TermA, Obj2(Keyword.Id, JStr(IriXT), Keyword.Prefix, JBool(TRUE))),
       Obj2(Keyword.Vocab, JStr(IriA), TermAQ, JStr(TermAQ)),
       Obj2(Keyword.Vocab, JStr(IriA), TermA, JStr(TermA)),
       Obj1(TermName, Obj2(Keyword.Reverse, JStr(IriA), Keyword.Prefix, JBool(TRUE))),
       Obj1(TermPX, JStr(IriA)),
       Obj1(TermA, Obj1(Keyword.Id, JStr(<<"_",":","b">>))) >>

\* A relative IRI as a term, and terms with a colon at a boundary.
TermAB == <<"a","/","b">>
TermColonLast == <<"a",":">>
TermColonFirst == <<":","a">>
IriAAB == <<"h",":","/","/","a","/","a","/","b">>

\* Terms in the form of a compact or relative IRI with an @id of their
\* own: one that agrees with the expansion of the term, ones that do not,
\* a null and a keyword-like @id, a prefix that cannot be defined, and
\* terms whose colon is their first or last character.
CompactTermContexts ==
    << Obj2(TermP, JStr(IriA), TermPX, Obj1(Keyword.Id, JStr(IriPX))),
       Obj2(TermP, JStr(IriA), TermPX, JStr(IriB)),
       Obj2(TermP, Obj1(Keyword.Id, JStr(IriA)), TermPX, JStr(IriPX)),
       Obj1(TermPX, Obj1(Keyword.Id, JNull)),
       Obj1(TermPX, JStr(TermFoo)),
       Obj2(Keyword.Vocab, JStr(IriA), TermAB, JStr(IriAAB)),
       Obj1(TermAB, JStr(IriB)),
       Obj1(TermColonLast, JStr(IriB)),
       Obj1(TermColonFirst, JStr(IriB)),
       Obj2(TermPX, JStr(IriPX), TermP, JNum(5)),
       Obj2(TermPX, JStr(IriPX), TermP, JStr(IriA)) >>

\* Values for which several readings compete.
TermUnderscore == <<"_">>
TermH == <<"h">>
BlankX == <<"_",":","x">>
TermPXY == <<"p",":","x",":","y">>
IriPXY == <<"h",":","/","/","a","/","x",":","y">>

\* Contexts where the readings of a value compete: a term against the
\* vocabulary mapping, a term in the form of a compact IRI against its
\* prefix, a value with two colons, the prefixes "_" and "h" defined as
\* terms, and a prefix defined as null.
PrecedenceContexts ==
    << Obj3(Keyword.Vocab, JStr(IriV), TermA, JStr(IriXT), TermT, JStr(TermA)),
       Arr2(Obj2(TermP, JStr(IriA), TermPX, JStr(IriPX)),
            Obj2(TermP, JStr(IriB), TermT, JStr(TermPX))),
       Obj2(TermP, JStr(IriA), TermT, JStr(TermPXY)),
       Obj2(TermUnderscore, JStr(IriA), TermT, JStr(BlankX)),
       Obj2(TermH, JStr(IriB), TermT, JStr(IriA)),
       Obj2(TermP, JNull, TermT, JStr(TermPX)),
       Obj2(Keyword.Vocab, JStr(IriV), TermT, JStr(TermA)) >>

\* Definitions with a null @id and one more entry: @prefix true and
\* false, @container, @index and @nest.
NullIdContexts ==
    << Obj1(TermA, Obj2(Keyword.Id, JNull, Keyword.Prefix, JBool(TRUE))),
       Obj1(TermA, Obj2(Keyword.Id, JNull, Keyword.Prefix, JBool(FALSE))),
       Obj1(TermA, Obj2(Keyword.Id, JNull, Keyword.Container, JStr(Keyword.Set))),
       Obj1(TermA, Obj3(Keyword.Id, JNull, Keyword.Container, JStr(Keyword.Index),
                        Keyword.Index, JStr(IriA))),
       Obj1(TermA, Obj2(Keyword.Id, JNull, Keyword.Nest, JStr(TermB))) >>

\* Contexts without cyclic dependency where a term is skipped with a
\* warning, for its keyword-like @id, @reverse or name, and another term
\* refers to it or follows it.
SkippedContexts ==
    << Obj2(TermA, JStr(TermFoo), TermB, JStr(TermA)),
       Obj2(TermA, Obj1(Keyword.Reverse, JStr(TermFoo)), TermB, JStr(TermA)),
       Obj2(TermFoo, JStr(IriA), TermB, JStr(IriB)),
       Obj2(TermA, JStr(TermFoo), TermB, JStr(IriB)) >>

LocalContexts ==
    ProtectedContexts \o TermContexts \o ContextEntryContexts \o RemoteContexts
        \o OrderContexts \o KeywordContexts \o KeywordTermContexts
        \o ErrorContexts \o WarningContexts \o BaseContexts
        \o ProtectedDefaultContexts \o VocabContexts \o SiblingContexts
        \o ReverseContexts \o PropagateContexts \o ScopedContexts
        \o PrefixContexts \o CompactTermContexts \o PrecedenceContexts
        \o NullIdContexts \o SkippedContexts

ProcessingModes == {"1.0", "1.1"}

---------------------------------------------------------------------------
(* The state machine.                                                      *)

\* Local::process_full is called on a local context, with a new active
\* context, an empty stack of remote contexts and any options.
Init ==
    /\ \E n \in 1..Len(LocalContexts), base \in {None, Some(BaseUrl)},
          mode \in ProcessingModes, override \in BOOLEAN, propagate \in BOOLEAN :
           stack = <<ProcessFullFrame(Context_new(base), LocalContexts[n],
                                      ProcessingStack_new, base,
                                      Options(mode, override, propagate))>>
    /\ ret = NoRet
    /\ warnings = <<>>
    /\ loads = <<>>
    /\ IdleExcept("context")

\* The running call is in function fn at resume point pc.
Now(fn, pc) ==
    /\ Len(stack) > 0
    /\ stack[Len(stack)].fn = fn
    /\ stack[Len(stack)].pc = pc

Current == Machine(stack, ret, warnings, loads)

\* The step that takes the machine to M.
Becomes(M) ==
    /\ Len(M.stack) <= MaxFrames
    /\ stack' = M.stack
    /\ ret' = M.ret
    /\ warnings' = M.warnings
    /\ loads' = M.loads
    /\ OnlyChanges("context")

process_full_enter == Now("process_full", "enter") /\ Becomes(Run(ProcessFullEnter(Current)))
process_full_after == Now("process_full", "after") /\ Becomes(Run(ProcessFullAfter(Current)))
process_context_start == Now("process_context", "start") /\ Becomes(Run(ProcessStart(Current)))
process_context_item == Now("process_context", "item") /\ Becomes(Run(ProcessItem(Current)))
process_context_load == Now("process_context", "load") /\ Becomes(Run(LoadRemoteContext(Current)))
process_context_after_remote ==
    Now("process_context", "after_remote") /\ Becomes(Run(AfterRemoteContext(Current)))
process_context_import ==
    Now("process_context", "import") /\ Becomes(Run(ProcessAfterImport(Current)))
process_context_after_define ==
    Now("process_context", "after_define") /\ Becomes(Run(ProcessAfterDefine(Current)))
define_enter == Now("define", "enter") /\ Becomes(Run(DefineEnter(Current)))
define_after_type == Now("define", "after_type") /\ Becomes(Run(DefineAfterType(Current)))
define_after_reverse ==
    Now("define", "after_reverse") /\ Becomes(Run(DefineAfterReverse(Current)))
define_after_id == Now("define", "after_id") /\ Becomes(Run(DefineAfterId(Current)))
define_after_term_expand ==
    Now("define", "after_term_expand") /\ Becomes(Run(DefineAfterTermExpand(Current)))
define_after_prefix == Now("define", "after_prefix") /\ Becomes(Run(DefineAfterPrefix(Current)))
define_after_scoped == Now("define", "after_scoped") /\ Becomes(Run(DefineAfterScoped(Current)))
expand_iri_enter == Now("expand_iri", "enter") /\ Becomes(Run(ExpandIriEnter(Current)))
expand_iri_after_define ==
    Now("expand_iri", "after_define") /\ Becomes(Run(ExpandIriAfterDefine(Current)))
expand_iri_after_prefix ==
    Now("expand_iri", "after_prefix") /\ Becomes(Run(ExpandIriAfterPrefix(Current)))

Next ==
    \/ process_full_enter
    \/ process_full_after
    \/ process_context_start
    \/ process_context_item
    \/ process_context_load
    \/ process_context_after_remote
    \/ process_context_import
    \/ process_context_after_define
    \/ define_enter
    \/ define_after_type
    \/ define_after_reverse
    \/ define_after_id
    \/ define_after_term_expand
    \/ define_after_prefix
    \/ define_after_scoped
    \/ expand_iri_enter
    \/ expand_iri_after_define
    \/ expand_iri_after_prefix

Spec == Init /\ [][Next]_vars

\* The outermost call has returned (or panicked).
Done == Len(stack) = 1 /\ stack[1].fn = "process_full" /\ stack[1].pc = "done"

---------------------------------------------------------------------------
(* Building a Container by successive Container::add calls.                *)

\* Container::from(iter): Ok(container), or Err(item) for the first item
\* that cannot be added.
RECURSIVE Container_fromFrom(_, _)
Container_fromFrom(self, iter) ==
    IF iter = <<>> THEN Ok(self)
    ELSE IF ~Container_add(self, Head(iter)).ok THEN Err(Head(iter))
    ELSE Container_fromFrom(Container_add(self, Head(iter)).container, Tail(iter))

Container_from(iter) == Container_fromFrom("None", iter)

\* Container::len: the length of the slice as_slice gives.
Container_len(self) ==
    CASE self = "None" -> 0
      [] self \in {"Graph", "Id", "Index", "Language", "List", "Set", "Type"} -> 1
      [] self \in {"GraphSet", "GraphId", "GraphIndex", "IdSet", "IndexSet",
                   "LanguageSet", "SetType"} -> 2
      [] self \in {"GraphIdSet", "GraphIndexSet"} -> 3

InitContainer ==
    /\ container = "None"
    /\ adds = <<>>
    /\ IdleExcept("container")

\* container.add(c)
container_add(c) ==
    /\ Len(adds) < MaxAdds
    /\ container' = Container_add(container, c).container
    /\ adds' = Append(adds, [c |-> c, ok |-> Container_add(container, c).ok])
    /\ OnlyChanges("container")

NextContainer == \E c \in ContainerTypes : container_add(c)

SpecContainer == InitContainer /\ [][NextContainer]_vars

---------------------------------------------------------------------------
(* A LocalContextObject: new, merge_with, then iter and next until None.   *)

\* Number of objects merged into one LocalContextObject.
MaxObjects == 2

OverlayKeys == {TermName, TermOther}
OverlayValues == {JStr(IriA), JStr(IriB)}

\* The objects of at most two entries, with pairwise distinct keys.
OverlayObjects ==
    {<<>>}
        \cup {<<Entry(k, v)>> : k \in OverlayKeys, v \in OverlayValues}
        \cup {<<Entry(TermName, v), Entry(TermOther, w)>> : v, w \in OverlayValues}
        \cup {<<Entry(TermOther, v), Entry(TermName, w)>> : v, w \in OverlayValues}

\* MergedObjectIter::next without the check that a later object has the
\* key.
RECURSIVE MergedObjectIter_nextUnchecked(_, _)
MergedObjectIter_nextUnchecked(objs, ents) ==
    IF ents = <<>> THEN [entries |-> <<>>, item |-> None]
    ELSE IF ents[Len(ents)] = <<>>
         THEN MergedObjectIter_nextUnchecked(objs, Front(ents))
    ELSE [entries |-> [ents EXCEPT ![Len(ents)] = Tail(@)],
          item |-> Some(Head(ents[Len(ents)]))]

\* MergedObjectIter::next: the iterator afterwards and the item returned.
\* `ents` holds what is left of the iterator of each object, the first
\* object's last; an exhausted iterator is popped; an entry is skipped when
\* one of the objects merged after its own contains its key.
RECURSIVE MergedObjectIter_next(_, _)
MergedObjectIter_next(objs, ents) ==
    IF ents = <<>> THEN [entries |-> <<>>, item |-> None]
    ELSE IF ents[Len(ents)] = <<>>
         THEN MergedObjectIter_next(objs, Front(ents))
    ELSE LET e == Head(ents[Len(ents)])
             rest == [ents EXCEPT ![Len(ents)] = Tail(@)]
         IN  IF /\ Len(objs) > 1
                /\ \E m \in (Len(objs) - Len(ents) + 2)..Len(objs) :
                       ObjHas(objs[m], e.key)
             THEN MergedObjectIter_next(objs, rest)
             ELSE [entries |-> rest, item |-> Some(e)]

InitOverlay ==
    /\ \E object \in OverlayObjects :
           merged_objects = LocalContextObject_new(object)
    /\ iter_entries = <<>>
    /\ yielded = <<>>
    /\ IdleExcept("overlay")

\* objects.merge_with(object), before any iterator borrows the objects.
overlay_merge_with(object) ==
    /\ iter_entries = <<>>
    /\ Len(merged_objects) < MaxObjects
    /\ merged_objects' = merge_with(merged_objects, object)
    /\ UNCHANGED <<iter_entries, yielded>>
    /\ OnlyChanges("overlay")

\* objects.iter(): entries = objects.iter().map(|o| o.iter()).rev().collect()
overlay_iter ==
    /\ iter_entries = <<>>
    /\ iter_entries' =
           <<[n \in 1..Len(merged_objects) |->
                 merged_objects[Len(merged_objects) + 1 - n]]>>
    /\ UNCHANGED <<merged_objects, yielded>>
    /\ OnlyChanges("overlay")

\* One call of next on the iterator, until it has returned None.
overlay_next ==
    /\ iter_entries # <<>>
    /\ IF yielded = <<>> THEN TRUE ELSE IsSome(yielded[Len(yielded)])
    /\ iter_entries' =
           <<MergedObjectIter_next(merged_objects, iter_entries[1]).entries>>
    /\ yielded' =
           Append(yielded, MergedObjectIter_next(merged_objects, iter_entries[1]).item)
    /\ UNCHANGED merged_objects
    /\ OnlyChanges("overlay")

NextOverlay ==
    \/ \E object \in OverlayObjects : overlay_merge_with(object)
    \/ overlay_iter
    \/ overlay_next

SpecOverlay == InitOverlay /\ [][NextOverlay]_vars

---------------------------------------------------------------------------
(* expand_literal (expansion/src/literal.rs): the expansion of a boolean,  *)
(* number or string value of a property.                                   *)

\* GivenLiteralValue::new: the literal of a JSON value.
GivenLiteralValue_new(json) ==
    CASE json.k = "bool" -> [k |-> "Boolean", v |-> json.v]
      [] json.k = "number" -> [k |-> "Number", v |-> json.v]
      [] json.k = "string" -> [k |-> "String", v |-> json.v]

\* LiteralValue::Given / LiteralValue::Inferred
Given(given) == [k |-> "Given", v |-> given]
Inferred(string) == [k |-> "Inferred", v |-> string]

\* GivenLiteralValue::is_string: matches!(self, Self::Number(_))
GivenLiteralValue_is_string(given) == given.k = "Number"

\* GivenLiteralValue::as_str
GivenLiteralValue_as_str(given) ==
    IF given.k = "String" THEN Some(given.v) ELSE None

\* LiteralValue::is_string
LiteralValue_is_string(v) ==
    IF v.k = "Given" THEN GivenLiteralValue_is_string(v.v) ELSE TRUE

\* LiteralValue::as_str
LiteralValue_as_str(v) ==
    IF v.k = "Given" THEN GivenLiteralValue_as_str(v.v) ELSE Some(v.v)

\* node_id_of_term: no node identifier for Null, the reference itself, and
\* an invalid identifier spelling the keyword for a keyword.
node_id_of_term(term) ==
    CASE term.k = "null" -> None
      [] term.k = "keyword" -> Some(TermInvalid(term.v))
      [] OTHER -> Some(term)

\* Object::Node(node) with node.set_id(id), and Object::Value(value)
NodeObject(id) == [k |-> "Node", v |-> id]
ValueObject(value) == [k |-> "Value", v |-> value]

\* Value::Literal(literal, type) and Value::LangString(lang_string)
ValueLiteral(lit, ty) ==
    [k |-> "Literal", v |-> [data |-> lit, ty |-> ty, language |-> None, direction |-> None]]
ValueLangString(lit, language, direction) ==
    [k |-> "LangString",
     v |-> [data |-> lit, ty |-> None, language |-> language, direction |-> direction]]

\* LangString::new(string, language, direction): Err(string) when there is
\* neither a language nor a direction.
LangString_new(string, language, direction) ==
    IF IsNone(language) /\ IsNone(direction) THEN Err(string)
    ELSE Ok(ValueLangString(string, language, direction))

\* Nullable::option
Nullable_option(n) == IF n.k = "some" THEN Some(n.v) ELSE None

\* What a call of expand_literal leaves: the Result, or a panic, and the
\* warnings raised.
Expanded(result, warns) == [result |-> result, warnings |-> warns]

\* expand_literal with the default language of the active context taken
\* before the language mapping of the term.
expand_literalDefaultFirst(active_context, active_property, value) ==
    LET active_property_definition ==
            IF IsSome(active_property)
            THEN Context_get(active_context, active_property.v)
            ELSE None
        active_property_type ==
            IF IsSome(active_property_definition)
            THEN active_property_definition.v.typ
            ELSE None
        typ == IF IsSome(active_property_type) THEN active_property_type.v.k ELSE "none"
        node(vocab) ==
            IF IsNone(LiteralValue_as_str(value))
            THEN Expanded([k |-> "panic", v |-> "unwrap"], <<>>)
            ELSE LET e == expansion_expand_iri(active_context,
                                               LiteralValue_as_str(value).v, TRUE, vocab)
                 IN  Expanded(Ok(NodeObject(node_id_of_term(e.term))), e.warns)
        result ==
            IF value.k = "Inferred"
            THEN [k |-> "String", v |-> Inferred(value.v)]
            ELSE IF value.v.k = "String"
                 THEN [k |-> "String", v |-> [k |-> "Expanded", v |-> value.v.v]]
                 ELSE value.v
        language ==
            IF IsSome(active_context.default_language)
            THEN active_context.default_language
            ELSE IF IsSome(active_property_definition)
                       /\ IsSome(active_property_definition.v.language)
                 THEN Nullable_option(active_property_definition.v.language.v)
                 ELSE None
        direction ==
            IF IsSome(active_property_definition)
                  /\ IsSome(active_property_definition.v.direction)
            THEN Nullable_option(active_property_definition.v.direction.v)
            ELSE active_context.default_base_direction
        lang_string == LangString_new(result.v, language, direction)
    IN  IF typ = "Id" /\ LiteralValue_is_string(value) THEN node(FALSE)
        ELSE IF typ = "Vocab" /\ LiteralValue_is_string(value) THEN node(TRUE)
        ELSE IF typ \in {"none", "Id", "Vocab", "None"}
             THEN IF result.k = "String"
                  THEN IF lang_string.k = "ok"
                       THEN Expanded(Ok(ValueObject(lang_string.v)), <<>>)
                       ELSE Expanded(Ok(ValueObject(ValueLiteral(
                                [k |-> "String", v |-> lang_string.v], None))), <<>>)
                  ELSE Expanded(Ok(ValueObject(ValueLiteral(result, None))), <<>>)
        ELSE IF typ = "Ref"
             THEN Expanded(Ok(ValueObject(ValueLiteral(result, active_property_type))), <<>>)
        ELSE Expanded(Err("InvalidTypeValue"), <<>>)

\* expand_literal(active_context, active_property, value, warnings)
expand_literal(active_context, active_property, value) ==
    LET active_property_definition ==
            IF IsSome(active_property)
            THEN Context_get(active_context, active_property.v)
            ELSE None
        active_property_type ==
            IF IsSome(active_property_definition)
            THEN active_property_definition.v.typ
            ELSE None
        typ == IF IsSome(active_property_type) THEN active_property_type.v.k ELSE "none"
        node(vocab) ==
            IF IsNone(LiteralValue_as_str(value))
            THEN Expanded([k |-> "panic", v |-> "unwrap"], <<>>)
            ELSE LET e == expansion_expand_iri(active_context,
                                               LiteralValue_as_str(value).v, TRUE, vocab)
                 IN  Expanded(Ok(NodeObject(node_id_of_term(e.term))), e.warns)
        result ==
            IF value.k = "Inferred"
            THEN [k |-> "String", v |-> Inferred(value.v)]
            ELSE IF value.v.k = "String"
                 THEN [k |-> "String", v |-> [k |-> "Expanded", v |-> value.v.v]]
                 ELSE value.v
        language ==
            IF IsSome(active_property_definition)
                  /\ IsSome(active_property_definition.v.language)
            THEN Nullable_option(active_property_definition.v.language.v)
            ELSE active_context.default_language
        direction ==
            IF IsSome(active_property_definition)
                  /\ IsSome(active_property_definition.v.direction)
            THEN Nullable_option(active_property_definition.v.direction.v)
            ELSE active_context.default_base_direction
        lang_string == LangString_new(result.v, language, direction)
    IN  IF typ = "Id" /\ LiteralValue_is_string(value) THEN node(FALSE)
        ELSE IF typ = "Vocab" /\ LiteralValue_is_string(value) THEN node(TRUE)
        ELSE IF typ \in {"none", "Id", "Vocab", "None"}
             THEN IF result.k = "String"
                  THEN IF lang_string.k = "ok"
                       THEN Expanded(Ok(ValueObject(lang_string.v)), <<>>)
                       ELSE Expanded(Ok(ValueObject(ValueLiteral(
                                [k |-> "String", v |-> lang_string.v], None))), <<>>)
                  ELSE Expanded(Ok(ValueObject(ValueLiteral(result, None))), <<>>)
        ELSE IF typ = "Ref"
             THEN Expanded(Ok(ValueObject(ValueLiteral(result, active_property_type))), <<>>)
        ELSE Expanded(Err("InvalidTypeValue"), <<>>)

\* The type mappings of the active property: none, @id, @vocab, @none,
\* @json and an IRI.
LiteralTypes ==
    {None, Some([k |-> "Id", v |-> <<>>]), Some([k |-> "Vocab", v |-> <<>>]),
     Some([k |-> "None", v |-> <<>>]), Some([k |-> "Json", v |-> <<>>]),
     Some([k |-> "Ref", v |-> IriB])}

\* The literal values: booleans, a number, strings that are an IRI, a
\* relative reference and no IRI reference, and an inferred string.
LiteralValues ==
    {Given(GivenLiteralValue_new(json)) :
        json \in {JBool(TRUE), JBool(FALSE), JNum(5), JStr(IriA), JStr(TermB), JStr(IriBad)}}
        \cup {Inferred(TermB)}

\* A language tag other than the default language of the runs.
LangFr == <<"f","r">>

\* The language and direction mappings of a term: none, an explicit null
\* and a value; both are given, or the language only.
LiteralMappings ==
    {[language |-> language, direction |-> direction] :
        language \in {None, Some(NullableNull), Some(NullableSome(LangFr))},
        direction \in {None}}
    \cup {[language |-> None, direction |-> Some(NullableNull)],
          [language |-> None, direction |-> Some(NullableSome(Rtl))],
          [language |-> Some(NullableNull), direction |-> Some(NullableNull)]}

\* The active contexts: with or without base IRI, vocabulary mapping,
\* default language and default base direction, and with a definition of
\* `name` of each type mapping and each language and direction mapping.
LiteralContexts ==
    {Context_set([Context_new(base) EXCEPT !.vocabulary = vocabulary,
                                           !.default_language = defaults.language,
                                           !.default_base_direction = defaults.direction],
                 TermName,
                 Some([DefaultDefinition(FALSE) EXCEPT !.value = Some(TermIri(IriA)),
                                                       !.typ = typ,
                                                       !.language = mapping.language,
                                                       !.direction = mapping.direction])) :
        base \in {None, Some(BaseUrl)},
        vocabulary \in {None, Some(TermIri(IriV))},
        defaults \in {[language |-> None, direction |-> None],
                      [language |-> Some(LangEn), direction |-> None],
                      [language |-> Some(LangEn), direction |-> Some(Ltr)]},
        typ \in LiteralTypes,
        mapping \in LiteralMappings}

InitLiteral ==
    /\ \E active_context \in LiteralContexts,
          active_property \in {None, Some(TermName), Some(TermOther)},
          value \in LiteralValues :
           literal = [active_context |-> active_context,
                      active_property |-> active_property,
                      value |-> value]
    /\ expanded = Expanded(NoRet, <<>>)
    /\ IdleExcept("literal")

\* The call of expand_literal on the arguments.
expand_literal_call ==
    /\ expanded.result = NoRet
    /\ expanded' = expand_literal(literal.active_context, literal.active_property,
                                  literal.value)
    /\ UNCHANGED literal
    /\ OnlyChanges("literal")

NextLiteral == expand_literal_call

SpecLiteral == InitLiteral /\ [][NextLiteral]_vars

---------------------------------------------------------------------------
(* embed_context (compaction/src/document.rs): the compacted document gets *)
(* its @context entry.                                                     *)

\* The unprocessed context: context::Value::One(context) or Many(contexts),
\* a context being Null, an IRI reference or a definition.
One(c) == [k |-> "One", v |-> c]
Many(cs) == [k |-> "Many", v |-> cs]
ContextNull == [k |-> "Null", v |-> <<>>]
ContextIriRef(iri) == [k |-> "IriRef", v |-> iri]
ContextDefinition(vocab, bindings) ==
    [k |-> "Definition", v |-> [vocab |-> vocab, bindings |-> bindings]]

\* IntoJson::into_json of one context: null, the string of the reference,
\* or the object of the definition's entries, @vocab before the bindings.
ContextIntoJson(c) ==
    CASE c.k = "Null" -> JNull
      [] c.k = "IriRef" -> JStr(c.v)
      [] c.k = "Definition" ->
            JObj((IF IsSome(c.v.vocab)
                  THEN <<Entry(Keyword.Vocab, JStr(c.v.vocab.v))>> ELSE <<>>)
                 \o [n \in 1..Len(c.v.bindings) |->
                        Entry(c.v.bindings[n].key, JStr(c.v.bindings[n].val))])

\* IntoJson::into_json of the unprocessed context: Many gives an array.
IntoJson_into_json(u) ==
    IF u.k = "One" THEN ContextIntoJson(u.v)
    ELSE JArr([n \in 1..Len(u.v) |-> ContextIntoJson(u.v[n])])

\* compact_iri(context, Term::Keyword(kw), vocab = true, reverse = false):
\* the shortest term of the context defined as that keyword, the keyword
\* itself when there is none.
compact_iri(active_context, kw) ==
    LET aliases == {t \in DOMAIN active_context.definitions :
                        active_context.definitions[t].value = Some(TermKeyword(kw))}
    IN  IF aliases = {} THEN Ok(Some(kw))
        ELSE Ok(Some(CHOOSE t \in aliases : \A u \in aliases : Len(t) <= Len(u)))

\* json_syntax::Object::insert(key, value): the first entry of that key is
\* replaced where it stands and any further one removed; a new key is added
\* at the end.
Object_insert(ents, key, val) ==
    IF ObjHas(ents, key)
    THEN LET first == CHOOSE n \in 1..Len(ents) :
                          /\ ents[n].key = key
                          /\ \A m \in 1..(n - 1) : ents[m].key # key
         IN  SelectSeq([n \in 1..Len(ents) |->
                           IF n = first THEN Entry(key, val) ELSE ents[n]],
                       LAMBDA e : e.key # key \/ e = Entry(key, val))
    ELSE Append(ents, Entry(key, val))

\* Value::is_empty_array_or_object
is_empty_array_or_object(json) == json.k \in {"array", "object"} /\ json.v = <<>>

\* embed_context with the @context entry inserted whatever the object holds.
embed_contextAlways(self, processed, unprocessed) ==
    LET obj == IF self.k = "array"
               THEN IF self.v # <<>>
                    THEN Some(Object_insert(<<>>, compact_iri(processed, Keyword.Graph).v.v,
                                            self))
                    ELSE Some(<<>>)
               ELSE IF self.k = "object" THEN Some(self.v) ELSE None
        json_context == IntoJson_into_json(unprocessed)
    IN  IF IsSome(obj)
        THEN IF ~(json_context.k = "null") /\ ~is_empty_array_or_object(json_context)
             THEN JObj(Object_insert(obj.v, Keyword.Context, json_context))
             ELSE JObj(obj.v)
        ELSE JNull

\* embed_context(self, vocabulary, context, options): the value of self
\* afterwards.  The value is taken out of self first, which leaves null.
embed_context(self, processed, unprocessed) ==
    LET obj == IF self.k = "array"
               THEN IF self.v # <<>>
                    THEN Some(Object_insert(<<>>, compact_iri(processed, Keyword.Graph).v.v,
                                            self))
                    ELSE Some(<<>>)
               ELSE IF self.k = "object" THEN Some(self.v) ELSE None
        json_context == IntoJson_into_json(unprocessed)
    IN  IF IsSome(obj)
        THEN IF obj.v # <<>> /\ ~(json_context.k = "null")
                             /\ ~is_empty_array_or_object(json_context)
             THEN JObj(Object_insert(obj.v, Keyword.Context, json_context))
             ELSE JObj(obj.v)
        ELSE JNull

\* A term defined as an alias of @graph.
TermGraph == <<"g","r","a","p","h">>

\* The contexts of the call, unprocessed and processed: null, empty array,
\* empty definition, a reference, definitions, arrays, with and without an
\* alias of @graph.
EmbedContexts ==
    LET plain == Context_new(None)
        alias == Context_set(Context_new(None), TermGraph,
                     Some([DefaultDefinition(FALSE) EXCEPT
                              !.value = Some(TermKeyword(Keyword.Graph))]))
        named == Context_set(Context_new(None), TermName,
                     Some([DefaultDefinition(FALSE) EXCEPT !.value = Some(TermIri(IriA))]))
    IN  {[unprocessed |-> One(ContextNull), processed |-> plain],
         [unprocessed |-> Many(<<>>), processed |-> plain],
         [unprocessed |-> One(ContextDefinition(None, <<>>)), processed |-> plain],
         [unprocessed |-> Many(<<ContextNull>>), processed |-> plain],
         [unprocessed |-> One(ContextIriRef(UrlS)), processed |-> plain],
         [unprocessed |-> One(ContextIriRef(UrlS)), processed |-> alias],
         [unprocessed |-> One(ContextDefinition(Some(IriV), <<>>)),
          processed |-> [plain EXCEPT !.vocabulary = Some(TermIri(IriV))]],
         [unprocessed |-> One(ContextDefinition(None, <<Entry(TermName, IriA)>>)),
          processed |-> named],
         [unprocessed |-> One(ContextDefinition(None, <<Entry(TermGraph, Keyword.Graph)>>)),
          processed |-> alias],
         [unprocessed |-> Many(<<ContextIriRef(UrlS),
                                 ContextDefinition(None, <<Entry(TermGraph, Keyword.Graph)>>)>>),
          processed |-> alias]}

\* The documents: arrays, objects (one of them with an @context entry of
\* its own) and scalars.
EmbedDocuments ==
    {JArr(<<>>), JArr(<<JObj(<<>>)>>), JArr(<<Obj1(TermName, JStr(TermA))>>),
     JArr(<<Obj1(TermName, JStr(TermA)), Obj1(TermName, JStr(TermB))>>),
     JObj(<<>>), Obj1(TermName, JStr(TermA)), Obj1(Keyword.Id, JStr(IriA)),
     Obj2(Keyword.Id, JStr(IriA), TermName, JNum(5)),
     Obj2(TermName, JStr(TermA), TermOther, JArr(<<>>)),
     Obj1(Keyword.Context, JStr(IriB)),
     Obj2(Keyword.Context, JStr(IriB), TermName, JStr(TermA)),
     Obj2(TermName, JStr(TermA), Keyword.Context, JNull),
     JNull, JStr(TermA), JNum(5), JBool(TRUE)}

InitEmbed ==
    /\ compacted_output \in EmbedDocuments
    /\ \E c \in EmbedContexts :
           embedding = [self |-> compacted_output, processed |-> c.processed,
                        unprocessed |-> c.unprocessed, result |-> NoRet]
    /\ IdleExcept("embed")

\* compacted_output.embed_context(vocabulary, context, options)
embed_context_call ==
    /\ embedding.result = NoRet
    /\ compacted_output' = embed_context(compacted_output, embedding.processed,
                                         embedding.unprocessed)
    /\ embedding' = [embedding EXCEPT !.result = Ok(Unit)]
    /\ OnlyChanges("embed")

NextEmbed == embed_context_call

SpecEmbed == InitEmbed /\ [][NextEmbed]_vars

---------------------------------------------------------------------------
(* NoLoader (core/src/loader/none.rs): the loader that loads nothing.      *)

\* The longest history of calls of load_in.
MaxLoads == 3

\* PhantomData: a value with no field.
PhantomData == <<>>

\* NoLoader::new / Default
NoLoader_new == PhantomData

\* CannotLoad(url)
CannotLoad(url) == [k |-> "CannotLoad", v |-> url]

\* A loader that remembers the URLs asked for, and gives a document for a
\* URL asked for before.
NoLoader_load_inRemembered(self, url) ==
    [self |-> Append(self, url),
     result |-> IF \E n \in 1..Len(self) : self[n] = url
                THEN Ok([url |-> url, document |-> JObj(<<>>)])
                ELSE Err(CannotLoad(url))]

\* NoLoader::load_in(&mut self, _namespace, url): the loader afterwards
\* and the output of the future.
NoLoader_load_in(self, url) ==
    [self |-> self, result |-> Err(CannotLoad(url))]

\* The URLs asked for.
LoaderUrls == {UrlS, UrlSame, UrlMissing, UrlNoContext, BaseUrl}

InitLoader ==
    /\ no_loader = NoLoader_new
    /\ load_attempts = <<>>
    /\ IdleExcept("loader")

\* loader.load_in(namespace, url).await
load_in(url) ==
    /\ Len(load_attempts) < MaxLoads
    /\ no_loader' = NoLoader_load_in(no_loader, url).self
    /\ load_attempts' = Append(load_attempts,
                               [url |-> url,
                                result |-> NoLoader_load_in(no_loader, url).result])
    /\ OnlyChanges("loader")

NextLoader == \E url \in LoaderUrls : load_in(url)

SpecLoader == InitLoader /\ [][NextLoader]_vars

---------------------------------------------------------------------------
(* Properties (core/src/object/node/properties.rs): the properties of a    *)
(* node object, a map from property to the multiset of its objects.        *)

\* The most objects one property is given by the inserts that keep
\* equivalent objects.
MaxValues == 2

\* Meta(Indexed(object, index), metadata)
IndexedObject(object, index, metadata) ==
    [object |-> object, index |-> index, metadata |-> metadata]

\* Stripped(value): the value, compared without its metadata.
Stripped(value) == [stripped |-> value]

\* Object equivalence: index and metadata are ignored.
equivalent(v, value) == v.object = value.object

\* StrippedIndexedObject::equivalent
StrippedIndexedObject_equivalent(v, value) == equivalent(v.stripped, value.stripped)

\* Multiset::singleton, Multiset::with_capacity, Multiset::insert,
\* Multiset::extend / collect, Multiset::iter().all(f)
Multiset_singleton(value) == <<value>>
Multiset_with_capacity == <<>>
Multiset_insert(multiset, value) == Append(multiset, value)
Multiset_extend(multiset, values) == multiset \o values

\* HashMap::get, HashMap::insert, HashMap::remove, HashMap::len
HashMap_get(map, key) == IF key \in DOMAIN map THEN Some(map[key]) ELSE None
HashMap_insert(map, key, value) ==
    [k \in (DOMAIN map) \cup {key} |-> IF k = key THEN value ELSE map[k]]
HashMap_remove(map, key) == [k \in (DOMAIN map) \ {key} |-> map[k]]
HashMap_len(map) == Cardinality(DOMAIN map)

\* values.into_iter().map(Stripped)
RECURSIVE MapStripped(_)
MapStripped(values) ==
    IF values = <<>> THEN <<>>
    ELSE <<Stripped(Head(values))>> \o MapStripped(Tail(values))

\* Properties::new
Properties_new == <<>>

\* Properties::len, is_empty, contains
Properties_len(self) == HashMap_len(self)
Properties_is_empty(self) == HashMap_len(self) = 0
Properties_contains(self, prop) == IsSome(HashMap_get(self, prop))

\* Properties::get: the objects the iterator yields.
Properties_get(self, prop) ==
    IF IsSome(HashMap_get(self, prop)) THEN HashMap_get(self, prop).v ELSE <<>>

\* Properties::insert
Properties_insert(self, prop, value) ==
    IF IsSome(HashMap_get(self, prop))
    THEN HashMap_insert(self, prop, Multiset_insert(self[prop], Stripped(value)))
    ELSE HashMap_insert(self, prop, Multiset_singleton(Stripped(value)))

\* Properties::insert_unique
Properties_insert_unique(self, prop, value) ==
    IF IsSome(HashMap_get(self, prop))
    THEN IF \A n \in 1..Len(self[prop]) : ~equivalent(self[prop][n].stripped, value)
         THEN HashMap_insert(self, prop, Multiset_insert(self[prop], Stripped(value)))
         ELSE self
    ELSE HashMap_insert(self, prop, Multiset_singleton(Stripped(value)))

\* Properties::insert_all
Properties_insert_all(self, prop, values) ==
    IF IsSome(HashMap_get(self, prop))
    THEN HashMap_insert(self, prop, Multiset_extend(self[prop], MapStripped(values)))
    ELSE HashMap_insert(self, prop, MapStripped(values))

\* InsertEachUnique that looks at the objects held before the call only.
InsertEachUniqueAgainstHeld(node_values, values) ==
    LET fresh == SelectSeq(values,
                           LAMBDA value :
                               \A n \in 1..Len(node_values) :
                                   ~StrippedIndexedObject_equivalent(node_values[n], value))
    IN  node_values \o fresh

\* for value in values { if node_values.iter().all(|v| !v.equivalent(&value))
\* { node_values.insert(value) } }
RECURSIVE InsertEachUnique(_, _)
InsertEachUnique(node_values, values) ==
    IF values = <<>> THEN node_values
    ELSE InsertEachUnique(
             IF \A n \in 1..Len(node_values) :
                    ~StrippedIndexedObject_equivalent(node_values[n], Head(values))
             THEN Multiset_insert(node_values, Head(values))
             ELSE node_values,
             Tail(values))

\* Properties::insert_all_unique_stripped
Properties_insert_all_unique_stripped(self, prop, values) ==
    IF IsSome(HashMap_get(self, prop))
    THEN HashMap_insert(self, prop, InsertEachUnique(self[prop], values))
    ELSE HashMap_insert(self, prop, InsertEachUnique(Multiset_with_capacity, values))

\* Properties::insert_all_unique
Properties_insert_all_unique(self, prop, values) ==
    Properties_insert_all_unique_stripped(self, prop, MapStripped(values))

\* Properties::extend_unique
RECURSIVE Properties_extend_unique(_, _)
Properties_extend_unique(self, iter) ==
    IF iter = <<>> THEN self
    ELSE Properties_extend_unique(
             Properties_insert_all_unique(self, Head(iter).prop, Head(iter).values),
             Tail(iter))

\* Extend::extend
RECURSIVE Properties_extend(_, _)
Properties_extend(self, iter) ==
    IF iter = <<>> THEN self
    ELSE Properties_extend(
             Properties_insert_all(self, Head(iter).prop, Head(iter).values),
             Tail(iter))

\* Properties::remove: the map afterwards.
Properties_remove(self, prop) == HashMap_remove(self, prop)

\* The properties and the objects of the runs: ObjectA and ObjectAIndexed
\* are equivalent and differ in index and metadata.
PropP == <<"h",":","/","/","p">>
PropQ == <<"h",":","/","/","q">>
Props == {PropP, PropQ}
ObjectA == IndexedObject("a", None, 1)
ObjectAIndexed == IndexedObject("a", Some(<<"i">>), 2)
ObjectB == IndexedObject("b", None, 1)
Objects == {ObjectA, ObjectAIndexed, ObjectB}
ObjectLists ==
    {<<>>, <<ObjectA, ObjectAIndexed>>, <<ObjectAIndexed, ObjectB>>, <<ObjectB>>}
Bindings ==
    {<<>>,
     <<[prop |-> PropP, values |-> <<ObjectA>>], [prop |-> PropP, values |-> <<ObjectAIndexed>>]>>,
     <<[prop |-> PropP, values |-> <<ObjectB, ObjectB>>], [prop |-> PropQ, values |-> <<>>]>>}

\* No two objects of one property are equivalent.
NoEquivalentObjects(self) ==
    \A prop \in DOMAIN self :
        \A m, n \in 1..Len(self[prop]) :
            m # n => ~StrippedIndexedObject_equivalent(self[prop][m], self[prop][n])

\* The Properties values a run of the deduplicating methods starts from.
UniqueProperties ==
    {Properties_new,
     Properties_insert(Properties_new, PropP, ObjectA),
     Properties_insert(Properties_insert(Properties_new, PropP, ObjectAIndexed), PropP, ObjectB),
     Properties_insert(Properties_insert(Properties_new, PropP, ObjectB), PropQ, ObjectA)}

\* Every property holds at most MaxValues objects.
WithinMaxValues(self) == \A prop \in DOMAIN self : Len(self[prop]) <= MaxValues

CallOf(method, prop, values) == [method |-> method, prop |-> prop, values |-> values]

InitUniqueProperties ==
    /\ properties \in UniqueProperties
    /\ last_call = <<>>
    /\ IdleExcept("properties")

InitProperties ==
    /\ properties = Properties_new
    /\ last_call = <<>>
    /\ IdleExcept("properties")

insert(prop, value) ==
    /\ WithinMaxValues(Properties_insert(properties, prop, value))
    /\ properties' = Properties_insert(properties, prop, value)
    /\ last_call' = CallOf("insert", prop, <<value>>)
    /\ OnlyChanges("properties")

insert_unique(prop, value) ==
    /\ properties' = Properties_insert_unique(properties, prop, value)
    /\ last_call' = CallOf("insert_unique", prop, <<value>>)
    /\ OnlyChanges("properties")

insert_all(prop, values) ==
    /\ WithinMaxValues(Properties_insert_all(properties, prop, values))
    /\ properties' = Properties_insert_all(properties, prop, values)
    /\ last_call' = CallOf("insert_all", prop, values)
    /\ OnlyChanges("properties")

insert_all_unique(prop, values) ==
    /\ properties' = Properties_insert_all_unique(properties, prop, values)
    /\ last_call' = CallOf("insert_all_unique", prop, values)
    /\ OnlyChanges("properties")

insert_all_unique_stripped(prop, values) ==
    /\ properties' = Properties_insert_all_unique_stripped(properties, prop, MapStripped(values))
    /\ last_call' = CallOf("insert_all_unique_stripped", prop, values)
    /\ OnlyChanges("properties")

extend_unique(iter) ==
    /\ properties' = Properties_extend_unique(properties, iter)
    /\ last_call' = CallOf("extend_unique", <<>>, iter)
    /\ OnlyChanges("properties")

extend(iter) ==
    /\ WithinMaxValues(Properties_extend(properties, iter))
    /\ properties' = Properties_extend(properties, iter)
    /\ last_call' = CallOf("extend", <<>>, iter)
    /\ OnlyChanges("properties")

remove(prop) ==
    /\ properties' = Properties_remove(properties, prop)
    /\ last_call' = CallOf("remove", prop, <<>>)
    /\ OnlyChanges("properties")

\* The methods that deduplicate, and remove.
NextUniqueProperties ==
    \/ \E prop \in Props, value \in Objects : insert_unique(prop, value)
    \/ \E prop \in Props, values \in ObjectLists : insert_all_unique(prop, values)
    \/ \E prop \in Props, values \in ObjectLists : insert_all_unique_stripped(prop, values)
    \/ \E iter \in Bindings : extend_unique(iter)
    \/ \E prop \in Props : remove(prop)

\* Every method that changes the map.
NextProperties ==
    \/ NextUniqueProperties
    \/ \E prop \in Props, value \in Objects : insert(prop, value)
    \/ \E prop \in Props, values \in ObjectLists : insert_all(prop, values)
    \/ \E iter \in Bindings : extend(iter)

SpecUniqueProperties == InitUniqueProperties /\ [][NextUniqueProperties]_vars

SpecProperties == InitProperties /\ [][NextProperties]_vars

---------------------------------------------------------------------------
(* ProcessingStack and StackNode (context/processing.rs): the frames are    *)
(* shared between a stack and its clones through Arc; a frame is named by  *)
(* its place in `arcs`, and 0 stands for None.                             *)

\* The most calls of push and clone in a run.
MaxStackCalls == 4

\* StackNode::new
StackNode_new(previous, url) == [previous |-> previous, url |-> url]

\* StackNode::contains
RECURSIVE StackNode_contains(_, _, _)
StackNode_contains(heap, node, url) ==
    IF heap[node].url = url THEN TRUE
    ELSE IF heap[node].previous # 0
         THEN StackNode_contains(heap, heap[node].previous, url)
         ELSE FALSE

\* ProcessingStack::cycle on a stack given by its head.
Head_cycle(heap, head, url) ==
    IF head # 0 THEN StackNode_contains(heap, head, url) ELSE FALSE

\* Head_push that writes the URL into the head frame of a stack that has
\* one, in place.
Head_pushInPlace(heap, head, url) ==
    IF Head_cycle(heap, head, url)
    THEN [ok |-> FALSE, heap |-> heap, head |-> head]
    ELSE IF head # 0
         THEN [ok |-> TRUE,
               heap |-> Append([heap EXCEPT ![head].url = url],
                               StackNode_new(heap[head].previous, heap[head].url)),
               head |-> head]
         ELSE [ok |-> TRUE,
               heap |-> Append(heap, StackNode_new(head, url)),
               head |-> Len(heap) + 1]

\* ProcessingStack::push on a stack given by its head: the returned bool,
\* the frames and the head afterwards.
Head_push(heap, head, url) ==
    IF Head_cycle(heap, head, url)
    THEN [ok |-> FALSE, heap |-> heap, head |-> head]
    ELSE [ok |-> TRUE,
          heap |-> Append(heap, StackNode_new(head, url)),
          head |-> Len(heap) + 1]

\* The URLs a run pushes.
StackUrls == {UrlS, UrlSame, UrlMissing}

InitStack ==
    /\ arcs = <<>>
    /\ heads = <<0>>
    /\ stack_calls = <<>>
    /\ IdleExcept("stack")

\* stack.push(url), on the n-th stack.
push(n, url) ==
    /\ Len(stack_calls) < MaxStackCalls
    /\ arcs' = Head_push(arcs, heads[n], url).heap
    /\ heads' = [heads EXCEPT ![n] = Head_push(arcs, heads[n], url).head]
    /\ stack_calls' = Append(stack_calls,
                             [method |-> "push", on |-> n, url |-> url,
                              ok |-> Head_push(arcs, heads[n], url).ok])
    /\ OnlyChanges("stack")

\* stack.clone(), of the n-th stack: the clone has the same head.
clone(n) ==
    /\ Len(stack_calls) < MaxStackCalls
    /\ heads' = Append(heads, heads[n])
    /\ stack_calls' = Append(stack_calls,
                             [method |-> "clone", on |-> n, url |-> <<>>, ok |-> TRUE])
    /\ UNCHANGED arcs
    /\ OnlyChanges("stack")

NextStack ==
    \/ \E n \in 1..Len(heads), url \in StackUrls : push(n, url)
    \/ \E n \in 1..Len(heads) : clone(n)

SpecStack == InitStack /\ [][NextStack]_vars

---------------------------------------------------------------------------
(* Properties.                                                             *)

\* The calls of process_context in progress.
ProcessContextCalls == {n \in 1..Len(stack) : stack[n].fn = "process_context"}

\* The outermost call: Local::process_full on the local context of the run.
Root == stack[1]

\* A context holds a protected definition for term t.
HoldsProtected(ctx, t) ==
    t \in DOMAIN ctx.definitions /\ ctx.definitions[t].protected

\* C1 (protected monotonicity): in a call of process_context with
\* override_protected = false, no item that is processed successfully
\* leaves a term that had a protected definition before the item with a
\* definition that differs from it in a field other than `protected`, or
\* without a definition.
C1_ProtectedMonotonicity ==
    \A c \in ProcessContextCalls :
        ~stack[c].options.override_protected =>
            \A n \in 1..(Len(stack[c].history) - 1) :
                \A t \in DOMAIN stack[c].history[n].definitions :
                    HoldsProtected(stack[c].history[n], t) =>
                        /\ t \in DOMAIN stack[c].history[n + 1].definitions
                        /\ DefinitionEq(stack[c].history[n + 1].definitions[t],
                                        stack[c].history[n].definitions[t])

\* C2 (protected flag inherited): in a call of process_context with
\* override_protected = false, when an item leaves a term that had a
\* protected definition with a definition equal to it in every field
\* except `protected`, the definition held after the item is protected.
C2_ProtectedInherited ==
    \A c \in ProcessContextCalls :
        ~stack[c].options.override_protected =>
            \A n \in 1..(Len(stack[c].history) - 1) :
                \A t \in DOMAIN stack[c].history[n].definitions :
                    /\ HoldsProtected(stack[c].history[n], t)
                    /\ t \in DOMAIN stack[c].history[n + 1].definitions
                    /\ DefinitionEq(stack[c].history[n + 1].definitions[t],
                                    stack[c].history[n].definitions[t])
                    => stack[c].history[n + 1].definitions[t].protected

\* Two calls of process_context with the same arguments.
SameCall(f, g) ==
    /\ f.active_context = g.active_context
    /\ f.local_context = g.local_context
    /\ f.remote_contexts = g.remote_contexts
    /\ f.base_url = g.base_url
    /\ f.options.processing_mode = g.options.processing_mode
    /\ f.options.override_protected = g.options.override_protected

\* C3 (no infinite loop): process_context returns in the end.  The loader
\* and the algorithm are deterministic, so a call of process_context that
\* is pending inside a call with the same arguments never returns: no such
\* call is ever made.
C3_NoInfiniteLoop ==
    \A c, d \in ProcessContextCalls :
        c < d => ~SameCall(stack[c], stack[d])

\* C4 as stated (cycle scenario): a reference to a context at URL A that
\* imports B, where B's @context refers to A, fails with ContextOverflow
\* or LoadingRemoteContextFailed.
ImportCycles == {JStr(UrlA1), JStr(UrlA2), JStr(UrlA4)}

C4_CycleOverflows ==
    (Done /\ Root.local_context \in ImportCycles) =>
        ret \in {Err("ContextOverflow"), Err("LoadingRemoteContextFailed")}

\* C4 as amended: the reference fails with InvalidRemoteContext when the
\* @context of B is a string or an array, and with InvalidContextEntry
\* when it is an object that imports A or when the processing mode is
\* json-ld-1.0, in which @import is not allowed; B is loaded at most once
\* and A is not loaded again.
C4_CycleInvalidRemoteContext ==
    (Done /\ Root.local_context \in ImportCycles) =>
        /\ ret = IF Root.options.processing_mode = "1.0"
                    \/ Root.local_context = JStr(UrlA2)
                 THEN Err("InvalidContextEntry")
                 ELSE Err("InvalidRemoteContext")
        /\ loads = IF Root.options.processing_mode = "1.0"
                   THEN <<Root.local_context.v>>
                   ELSE <<Root.local_context.v,
                          RemoteContext(Root.local_context.v).v.v[1].val.v>>

C4_Witness ==
    /\ Done
    /\ Root.local_context = JStr(UrlA1)
    /\ Root.options.processing_mode = "1.1"
    /\ ret = Err("InvalidRemoteContext")
    /\ loads = <<UrlA1, UrlB1>>

\* C5 (depth cap): the stack of remote contexts of a call never holds more
\* than the cap, and a chain of pairwise distinct remote contexts longer
\* than the cap fails with ContextOverflow.
C5_DepthCap ==
    /\ \A c \in ProcessContextCalls :
           Len(stack[c].remote_contexts) <= SpecDepthCap
    /\ (Done /\ Root.local_context = JStr(ChainUrl(1))) =>
           ret = Err("ContextOverflow")


\* The types whose add returned true among the first n adds.
Held(n) == {adds[m].c : m \in {m \in 1..n : adds[m].ok}}

LegalCombinations ==
    {{}} \cup {{c} : c \in ContainerTypes} \cup
    { {"Graph", "Set"}, {"Graph", "Id"}, {"Graph", "Index"},
      {"Id", "Set"}, {"Index", "Set"}, {"Language", "Set"}, {"Set", "Type"},
      {"Graph", "Id", "Set"}, {"Graph", "Index", "Set"} }

\* C6 (container lattice): every add returns false exactly when the types
\* held so far with the new one are not a legal combination, and the
\* container contains exactly the types that were added.
C6_ContainerLattice ==
    /\ \A n \in 1..Len(adds) :
           adds[n].ok <=> (Held(n - 1) \cup {adds[n].c}) \in LegalCombinations
    /\ \A c \in ContainerTypes :
           Container_contains(container, c) <=> c \in Held(Len(adds))

\* The items n+1 .. m-1 of a call are objects that import nothing.
PlainObjectsBetween(f, n, m) ==
    \A x \in (n + 1)..(m - 1) :
        f.items[x].k = "object" /\ ~ObjHas(f.items[x].v, Keyword.Import)

\* The terms defined by the items n+1 .. m-1 of a call.
TermsBetween(f, n, m) ==
    UNION {{f.items[x].v[y].key : y \in 1..Len(f.items[x].v)} :
              x \in (n + 1)..(m - 1)}

\* C7 (null reset): after a null item is processed, the result has no term
\* definition, vocabulary mapping, default language or default direction,
\* and its base IRI is the original base URL of the active context given
\* to the call; the terms of the result after later items are terms of
\* those items, and the call returns the result built since.
C7_NullReset ==
    /\ (Done /\ ret.k = "ok" /\ Root.local_context.k = "array") =>
           \A n \in 1..Len(Root.local_context.v) :
               /\ Root.local_context.v[n].k = "null"
               /\ PlainObjectsBetween([items |-> Root.local_context.v], n,
                                      Len(Root.local_context.v) + 1)
               => DOMAIN ret.v.context.definitions \subseteq
                      TermsBetween([items |-> Root.local_context.v], n,
                                   Len(Root.local_context.v) + 1)
    /\ \A c \in ProcessContextCalls :
        \A n \in 1..(Len(stack[c].history) - 1) :
            stack[c].items[n].k = "null" =>
                /\ DOMAIN stack[c].history[n + 1].definitions = {}
                /\ stack[c].history[n + 1].vocabulary = None
                /\ stack[c].history[n + 1].default_language = None
                /\ stack[c].history[n + 1].default_base_direction = None
                /\ stack[c].history[n + 1].base_iri =
                       stack[c].active_context.original_base_url
                /\ \A m \in (n + 1)..Len(stack[c].history) :
                       PlainObjectsBetween(stack[c], n, m) =>
                           DOMAIN stack[c].history[m].definitions
                               \subseteq TermsBetween(stack[c], n, m)

\* A call has processed a null item that followed an item setting a term,
\* a base IRI other than the original base URL, a vocabulary mapping, a
\* default language and a default direction, and a later item has defined
\* another term.
C7_Witness ==
    \E c \in ProcessContextCalls :
        \E n \in 1..(Len(stack[c].history) - 2) :
            /\ stack[c].items[n].k = "null"
            /\ DOMAIN stack[c].history[n].definitions # {}
            /\ IsSome(stack[c].history[n].vocabulary)
            /\ IsSome(stack[c].history[n].default_language)
            /\ IsSome(stack[c].history[n].default_base_direction)
            /\ stack[c].history[n].base_iri # stack[c].active_context.original_base_url
            /\ IsSome(stack[c].active_context.original_base_url)
            /\ DOMAIN stack[c].history[n + 2].definitions # {}

\* The running call of process_context is about to process a null item
\* with override_protected = false and a protected definition in `result`.
NullItemBlocked ==
    /\ Now("process_context", "item")
    /\ Top(Current).i <= Len(Top(Current).items)
    /\ Top(Current).items[Top(Current).i].k = "null"
    /\ ~Top(Current).options.override_protected
    /\ \E t \in DOMAIN Top(Current).result.definitions :
           HoldsProtected(Top(Current).result, t)

OwnerOf(n) == stack[OwnerIndex(SubSeq(stack, 1, n))]

\* The calls of define that have called expand_iri, define or
\* process_context and wait for it.
WaitingDefines ==
    {n \in 1..(Len(stack) - 1) : stack[n].fn = "define"}

\* C9 (entry of define): with defined[term] = true define returns Ok at
\* once and changes neither the active context nor `defined`; with
\* defined[term] = false it fails with CyclicIriMapping; with no entry for
\* a term of the local context, defined[term] is set before any call of
\* define, expand_iri or process_context: it is false while the definition
\* is made, until the code sets it to true to expand the term itself.
C9_DefineEntry ==
    /\ [][Now("define", "enter") =>
            LET entry == DefinedEntry(Defined(Current), Top(Current).term)
            IN  /\ entry = "defined" =>
                       /\ stack' = Front(stack)
                       /\ ret' = Ok(Unit)
                /\ entry = "being_defined" =>
                       /\ stack' = Front(stack)
                       /\ ret' = Err("CyclicIriMapping")
                /\ (entry = "absent" /\ Len(stack') > Len(stack)) =>
                       /\ Top(Current).term \in
                              DOMAIN stack'[OwnerIndex(stack)].defined
                       /\ ~stack'[OwnerIndex(stack)].defined[Top(Current).term]]_vars
    /\ [](\A n \in WaitingDefines :
              /\ stack[n].term \in DOMAIN OwnerOf(n).defined
              /\ OwnerOf(n).defined[stack[n].term]
                     <=> stack[n].pc = "after_term_expand")

\* define is entered for a term that is being defined, while other terms
\* of the same context are defined already.
C9_Witness ==
    /\ Now("define", "enter")
    /\ DefinedEntry(Defined(Current), Top(Current).term) = "being_defined"
    /\ \E t \in DOMAIN Defined(Current) : Defined(Current)[t]

\* No term appears twice in a sequence of terms.
NoDuplicates(terms) ==
    \A n, m \in 1..Len(terms) : terms[n] = terms[m] => n = m

\* The error of a cycle is on its way out of the call of process_context
\* in which it was found.
CycleErrorPending ==
    /\ ret = Err("CyclicIriMapping")
    /\ Len(stack) > 0
    /\ \/ Top(Current).fn = "expand_iri"
       \/ Top(Current).fn = "define" /\ Top(Current).pc # "after_scoped"
       \/ Top(Current).fn = "process_context"

\* C10 (each term defined once, cycles are errors): while one object
\* context is processed no term definition is set twice in the active
\* context, no term is being defined by two calls of define at once, and
\* once define is entered for a term that is being defined every call up
\* to the call of process_context that owns the context returns
\* CyclicIriMapping.
C10_DefinedOnce ==
    /\ [](\A c \in ProcessContextCalls : NoDuplicates(stack[c].commits))
    /\ [](\A n, m \in WaitingDefines :
              (n < m /\ stack[n].term = stack[m].term
                     /\ OwnerIndex(SubSeq(stack, 1, n)) = OwnerIndex(SubSeq(stack, 1, m)))
              => stack[n].pc = "after_term_expand")
    /\ [][CycleErrorPending =>
              /\ stack' = Front(stack)
              /\ ret' = Err("CyclicIriMapping")]_vars

\* A cycle is found after two terms of the same context were defined, one
\* of them by recursion before the loop over the entries reached it.
C10_Witness ==
    /\ CycleErrorPending
    /\ Len(Owner(Current).commits) = 2
    /\ Owner(Current).commits[1] = TermP

\* The keys of an object item.
KeysOf(item) == {item.v[y].key : y \in 1..Len(item.v)}

\* The definition of term t in a context maps it to the IRI iri.
MapsTo(ctx, t, iri) ==
    t \in DOMAIN ctx.definitions /\ ctx.definitions[t].value = Some(TermIri(iri))

IterDone == yielded # <<>> /\ IsNone(yielded[Len(yielded)])

\* The entries next has returned.
YieldedItems == [n \in 1..Cardinality({m \in 1..Len(yielded) : IsSome(yielded[m])}) |-> yielded[n].v]

\* The last of the merged objects that has the key is objs[n].
LastWith(objs, key, n) ==
    ObjHas(objs[n], key) /\ \A m \in (n + 1)..Len(objs) : ~ObjHas(objs[m], key)

\* C12 (import overlay): get(k) is the value of k in the importing object
\* (the one merged last) when it has k and else the value in the imported
\* object; the iterator returns no key twice, each key with the value get
\* returns for it, and once it is exhausted it has returned every key of
\* the union of the objects.
C12_ImportOverlay ==
    /\ \A k \in OverlayKeys \cup {TermA} :
        LET got == LocalContextObject_get(merged_objects, k)
        IN  /\ IsSome(got) <=> \E n \in 1..Len(merged_objects) : ObjHas(merged_objects[n], k)
            /\ \A n \in 1..Len(merged_objects) :
                   LastWith(merged_objects, k, n) => got = ObjGet(merged_objects[n], k)
    /\ \A n, m \in 1..Len(YieldedItems) :
           YieldedItems[n].key = YieldedItems[m].key => n = m
    /\ \A n \in 1..Len(YieldedItems) :
           LocalContextObject_get(merged_objects, YieldedItems[n].key) = Some(YieldedItems[n].val)
    /\ IterDone =>
           /\ {YieldedItems[n].key : n \in 1..Len(YieldedItems)} =
                  UNION {{merged_objects[n][x].key : x \in 1..Len(merged_objects[n])} :
                            n \in 1..Len(merged_objects)}
           /\ YieldedItems = LocalContextObject_iter(merged_objects)

\* Both objects have `name`, with different values, and the iterator is
\* exhausted after two entries.
C12_Witness ==
    /\ IterDone
    /\ Len(merged_objects) = 2
    /\ ObjGet(merged_objects[1], TermName) = Some(JStr(IriA))
    /\ ObjGet(merged_objects[2], TermName) = Some(JStr(IriB))
    /\ ObjHas(merged_objects[1], TermOther)
    /\ Len(YieldedItems) = 2

\* The running call of expand_iri returns Ok in this step.
ExpandIriReturns ==
    /\ Len(stack) > 1
    /\ stack[Len(stack)].fn = "expand_iri"
    /\ Len(stack') = Len(stack) - 1
    /\ ret'.k = "ok"

\* C13 (keyword closure): expand_iri returns a keyword only when the value
\* is a keyword, or when the active context defines the value as a term
\* whose IRI mapping is that keyword, and the keyword is one of the closed
\* set; for a value of the form of a keyword that is not one it returns
\* Null and pushes a KeywordLikeValue warning.
C13_KeywordClosure ==
    [][ExpandIriReturns =>
        LET value == stack[Len(stack)].value
            active_context == OwnerOf(Len(stack)).result
        IN  /\ ret'.v.k = "keyword" =>
                /\ ret'.v.v \in Keywords
                /\ \/ value = ret'.v.v
                   \/ /\ value \notin Keywords
                      /\ value \in DOMAIN active_context.definitions
                      /\ active_context.definitions[value].value = Some(ret'.v)
            /\ (is_keyword_like(value) /\ value \notin Keywords) =>
                /\ ret'.v = TermNull
                /\ warnings' = Append(warnings, Warning("KeywordLikeValue", value))
    ]_vars

\* expand_iri has returned the keyword @id for the alias `c`.
C13_Witness ==
    /\ Root.local_context = KeywordContexts[1]
    /\ stack[Len(stack)].fn = "define"
    /\ stack[Len(stack)].pc = "after_type"
    /\ stack[Len(stack)].term = TermA
    /\ ret = Ok(TermKeyword(Keyword.Id))

\* expand_iri has returned Null for the value @foo, with a warning.
C13_WitnessKeywordLike ==
    /\ Root.local_context = KeywordContexts[3]
    /\ stack[Len(stack)].fn = "define"
    /\ stack[Len(stack)].pc = "after_type"
    /\ ret = Ok(TermNull)
    /\ warnings = <<Warning("KeywordLikeValue", TermFoo)>>

\* The value a local context gives @type may be: a map that is not empty,
\* with no entry but @container: @set and @protected.
TypeValueAllowed(value) ==
    /\ value.k = "object"
    /\ value.v # <<>>
    /\ \A n \in 1..Len(value.v) :
           \/ value.v[n].key = Keyword.Protected
           \/ value.v[n].key = Keyword.Container /\ value.v[n].val = JStr(Keyword.Set)

\* The running call is define for a term that the local context has an
\* entry for.
DefinesEntry(term) ==
    /\ Len(stack) > 1
    /\ stack[Len(stack)].fn = "define"
    /\ stack[Len(stack)].term = term
    /\ IsSome(LocalContextObject_get(OwnerOf(Len(stack)).context, term))

EntryValue(term) == LocalContextObject_get(OwnerOf(Len(stack)).context, term).v

\* The running call returns in this step, with an error code.
FailsWith(code) == Len(stack') = Len(stack) - 1 /\ ret' = Err(code)

\* C14 (keywords are immutable): define for an entry of the local context
\* whose term is a keyword other than @type fails with KeywordRedefinition;
\* so does define for @type in 1.0 mode or with a value that is not a
\* non-empty map of @container: @set and @protected entries; define for
\* @type returns Ok only in 1.1 mode with such a value; and the context of
\* a successful run defines no keyword but @type.
C14_KeywordsImmutable ==
    /\ [][\A term \in Keywords :
            (DefinesEntry(term) /\ stack[Len(stack)].pc = "enter"
                /\ DefinedEntry(OwnerOf(Len(stack)).defined, term) = "absent") =>
                /\ term # Keyword.Type => FailsWith("KeywordRedefinition")
                /\ (/\ term = Keyword.Type
                    /\ \/ stack[Len(stack)].options.processing_mode = "1.0"
                       \/ ~TypeValueAllowed(EntryValue(term))) =>
                       FailsWith("KeywordRedefinition")]_vars
    /\ [][(DefinesEntry(Keyword.Type) /\ Len(stack') = Len(stack) - 1 /\ ret'.k = "ok") =>
            /\ stack[Len(stack)].options.processing_mode = "1.1"
            /\ TypeValueAllowed(EntryValue(Keyword.Type))]_vars
    /\ [](\A c \in ProcessContextCalls :
            \A n \in 1..Len(stack[c].history) :
                DOMAIN stack[c].history[n].definitions \cap Keywords \subseteq {Keyword.Type})
    /\ []((Done /\ ret.k = "ok") =>
            DOMAIN ret.v.context.definitions \cap Keywords \subseteq {Keyword.Type})

\* @type has been given a set container and made protected.
C14_Witness ==
    /\ Done
    /\ ret.k = "ok"
    /\ Root.local_context = KeywordTermContexts[2]
    /\ Root.options.processing_mode = "1.1"
    /\ DOMAIN ret.v.context.definitions = {Keyword.Type}
    /\ ret.v.context.definitions[Keyword.Type].container = "Set"
    /\ ret.v.context.definitions[Keyword.Type].protected

\* define has refused the entry of the keyword @graph.
C14_WitnessRefused ==
    /\ Root.local_context = KeywordTermContexts[9]
    /\ Len(stack) = 2
    /\ stack[2].fn = "process_context"
    /\ stack[2].pc = "after_define"
    /\ ret = Err("KeywordRedefinition")

\* A call has returned an error that the outermost call has not returned yet.
ErrorPending == Len(stack) > 0 /\ ret.k = "err" /\ ~Done

\* The error a caller passes on: define turns any error of the processing
\* of a scoped context into InvalidScopedContext.
PassedOn ==
    IF stack[Len(stack)].fn = "define" /\ stack[Len(stack)].pc = "after_scoped"
    THEN Err("InvalidScopedContext")
    ELSE ret

\* C15 (errors are fatal): once a call has returned an error, every step
\* is the return of the caller with that error: no other frame changes (no
\* later item or term is processed) and the loader is not called again;
\* the active context a call of process_context was given never changes;
\* the runs with a violation before other items, terms and remote contexts
\* end with the error of that violation.
C15_ErrorsFatal ==
    /\ [][ErrorPending =>
            /\ ret' = PassedOn
            /\ loads' = loads
            /\ IF Len(stack) = 1
               THEN stack' = <<[stack[1] EXCEPT !.pc = "done"]>>
               ELSE stack' = Front(stack)]_vars
    /\ [][\A c \in ProcessContextCalls :
            (c <= Len(stack') /\ stack'[c].fn = "process_context") =>
                stack'[c].active_context = stack[c].active_context]_vars
    /\ [](Done =>
            /\ Root.local_context = ErrorContexts[1] =>
                   ret = Err("InvalidVocabMapping") /\ loads = <<>>
            /\ Root.local_context = ErrorContexts[2] =>
                   ret = Err("InvalidIriMapping")
            /\ Root.local_context = ErrorContexts[3] =>
                   ret = Err("LoadingDocumentFailed") /\ loads = <<UrlMissing>>
            /\ (Root.local_context = ErrorContexts[4]
                    /\ Root.options.processing_mode = "1.1") =>
                   ret = Err("InvalidScopedContext")
            /\ (Root.local_context = ErrorContexts[5]
                    /\ Root.options.processing_mode = "1.1") =>
                   ret = Err("InvalidRemoteContext") /\ loads = <<UrlA1, UrlB1>>)

\* The error of a scoped context is on its way up, three calls deep, with
\* the term b of the outer context still to come.
C15_Witness ==
    /\ Root.local_context = ErrorContexts[4]
    /\ ret = Err("InvalidTermDefinition")
    /\ Len(stack) = 4
    /\ stack[4].fn = "process_context"
    /\ stack[2].fn = "process_context"
    /\ stack[2].j <= Len(stack[2].keys)

\* The warnings of a finished run hold one of the kind for the value.
Warned(kind, value) ==
    \E n \in 1..Len(ret.v.warnings) : ret.v.warnings[n] = Warning(kind, value)

LiteralType ==
    IF IsSome(literal.active_property)
          /\ IsSome(Context_get(literal.active_context, literal.active_property.v))
          /\ IsSome(Context_get(literal.active_context, literal.active_property.v).v.typ)
    THEN Context_get(literal.active_context, literal.active_property.v).v.typ.v.k
    ELSE "none"

\* The value of the call is a string, and which.
LiteralIsString ==
    literal.value.k = "Inferred" \/ literal.value.v.k = "String"
LiteralString ==
    IF literal.value.k = "Inferred" THEN literal.value.v ELSE literal.value.v.v

\* The node object whose id is the IRI expansion of the string of the call.
NodeOfString(vocab) ==
    NodeObject(node_id_of_term(
        expansion_expand_iri(literal.active_context, LiteralString, TRUE, vocab).term))

\* C17 (typed coercion): with the type mapping @id (@vocab) and a string
\* value, expand_literal returns the node object whose id is the IRI
\* expansion of the string, document-relative and with vocab false (true);
\* with a boolean or a number it returns a value object that carries the
\* literal.
C17_TypedCoercion ==
    (expanded.result # NoRet /\ LiteralType \in {"Id", "Vocab"}) =>
        IF LiteralIsString
        THEN expanded.result = Ok(NodeOfString(LiteralType = "Vocab"))
        ELSE /\ expanded.result.k = "ok"
             /\ expanded.result.v.k = "Value"
             /\ expanded.result.v.v.v.data = literal.value.v

\* The call of embed_context has returned.
Embedded == embedding.result = Ok(Unit)

\* The JSON form of the unprocessed context of the call, and whether it is
\* null or an empty array or object.
EmbedJsonContext == IntoJson_into_json(embedding.unprocessed)
EmbedContextIsEmpty ==
    EmbedJsonContext = JNull \/ EmbedJsonContext = JArr(<<>>) \/ EmbedJsonContext = JObj(<<>>)

\* The object the input stands for before @context is added: the wrapped
\* array, or the input object.
EmbedWrapped ==
    IF embedding.self.k = "array"
    THEN IF embedding.self.v = <<>> THEN <<>>
         ELSE <<Entry(compact_iri(embedding.processed, Keyword.Graph).v.v, embedding.self)>>
    ELSE embedding.self.v

\* The entries of a sequence whose key is not @context.
NotContextEntries(ents) == SelectSeq(ents, LAMBDA e : e.key # Keyword.Context)

\* The call of embed_context on an array or an object adds the @context
\* entry exactly when the object is non-empty and the context is not empty.
EmbedAddsContext == EmbedWrapped # <<>> /\ ~EmbedContextIsEmpty

\* C18 as stated (context embedding): an array becomes the object of the
\* one entry (compacted @graph, array), an empty array the empty object; the
\* @context entry with the unprocessed context is added exactly when that
\* object is non-empty and the context neither null nor empty; an object
\* input keeps all its existing entries.
C18_EmbedKeepsEveryEntry ==
    (Embedded /\ embedding.self.k \in {"array", "object"}) =>
        /\ compacted_output.k = "object"
        /\ IF EmbedAddsContext
           THEN compacted_output.v = Append(EmbedWrapped, Entry(Keyword.Context, EmbedJsonContext))
           ELSE compacted_output.v = EmbedWrapped

\* C18 (context embedding): as stated, but an @context entry the input
\* object already has is replaced, where it stands, by the entry that is
\* added; every other entry is kept, in order.
C18_EmbedContext ==
    (Embedded /\ embedding.self.k \in {"array", "object"}) =>
        /\ compacted_output.k = "object"
        /\ IF EmbedAddsContext
           THEN /\ ObjGet(compacted_output.v, Keyword.Context) = Some(EmbedJsonContext)
                /\ Cardinality({n \in 1..Len(compacted_output.v) :
                                   compacted_output.v[n].key = Keyword.Context}) = 1
                /\ NotContextEntries(compacted_output.v) = NotContextEntries(EmbedWrapped)
                /\ IF ObjHas(EmbedWrapped, Keyword.Context)
                   THEN Len(compacted_output.v) = Len(EmbedWrapped)
                        /\ \A n \in 1..Len(EmbedWrapped) :
                              EmbedWrapped[n].key = compacted_output.v[n].key
                   ELSE compacted_output.v[Len(compacted_output.v)].key = Keyword.Context
           ELSE compacted_output.v = EmbedWrapped

\* An array with items was wrapped under the alias of @graph and got its
\* @context entry.
C18_Witness ==
    /\ Embedded
    /\ embedding.self.k = "array" /\ Len(embedding.self.v) = 2
    /\ compacted_output = JObj(<<Entry(TermGraph, embedding.self),
                                 Entry(Keyword.Context, EmbedJsonContext)>>)

\* An object that had an @context entry got the new one in its place.
C18_WitnessReplaced ==
    /\ Embedded
    /\ embedding.self = Obj2(Keyword.Context, JStr(IriB), TermName, JStr(TermA))
    /\ compacted_output = Obj2(Keyword.Context, EmbedJsonContext, TermName, JStr(TermA))
    /\ EmbedJsonContext # JStr(IriB)

\* C19 (the none loader always fails): after any history of calls, every
\* call of NoLoader::load_in has returned the error CannotLoad of its own
\* URL, never a document, and the loader holds nothing.
C19_NoLoaderAlwaysFails ==
    /\ no_loader = PhantomData
    /\ \A n \in 1..Len(load_attempts) :
          /\ load_attempts[n].result.k = "err"
          /\ load_attempts[n].result = Err(CannotLoad(load_attempts[n].url))

\* The same URL was asked for again after other calls, and failed again.
C19_Witness ==
    /\ Len(load_attempts) = 3
    /\ load_attempts[1].url = load_attempts[3].url
    /\ load_attempts[2].url # load_attempts[1].url
    /\ load_attempts[3].result = Err(CannotLoad(load_attempts[1].url))

\* The call in frame c is the outermost process_context call of the run.
OutermostCall(c) == c = 2 /\ stack[1].fn = "process_full"

\* The call in frame c processes the context of a dereferenced document.
RemoteCall(c) ==
    /\ c > 3
    /\ stack[c - 1].fn = "process_full"
    /\ stack[c - 2].fn = "process_context" /\ stack[c - 2].pc = "after_remote"

\* Item n of a call is an inline object with an @base entry and no @import,
\* and the call has gone past it.
BaseItemDone(f, n) ==
    /\ f.pc # "start"
    /\ n < Len(f.history) /\ n <= Len(f.items)
    /\ f.items[n].k = "object"
    /\ ObjHas(f.items[n].v, Keyword.Base)
    /\ ~ObjHas(f.items[n].v, Keyword.Import)

\* The base IRI after an @base entry of that value is applied to base.
BaseApplied(base, value) ==
    IF value.k = "null" THEN None
    ELSE IF IsIri(value.v) THEN Some(value.v)
    ELSE resolve_iri(value.v, base)

\* C20 (@base only in the outermost call): an @base entry of an object of
\* the outermost process_context call is applied wherever the object stands
\* in the context array (null clears the base IRI, a string sets it or is
\* resolved against the current one); an @base entry of a dereferenced
\* remote context leaves the base IRI as it was.
C20_BaseOnlyOutermost ==
    \A c \in ProcessContextCalls :
        \A n \in 1..Len(stack[c].items) :
            BaseItemDone(stack[c], n) =>
                /\ OutermostCall(c) =>
                       stack[c].history[n + 1].base_iri =
                           BaseApplied(stack[c].history[n].base_iri,
                                       ObjGet(stack[c].items[n].v, Keyword.Base).v)
                /\ RemoteCall(c) =>
                       stack[c].history[n + 1].base_iri = stack[c].history[n].base_iri

\* The run was on an object context whose @protected entry is true, and
\* has succeeded.
ProtectedObjectDone ==
    /\ Done /\ ret.k = "ok"
    /\ Root.local_context.k = "object"
    /\ ~ObjHas(Root.local_context.v, Keyword.Import)
    /\ ObjGet(Root.local_context.v, Keyword.Protected) = Some(JBool(TRUE))

\* The terms the object context of the run defines with no @protected entry
\* of their own, and that the result holds.
DefaultProtectedTerms ==
    {t \in KeysOf(Root.local_context) :
        /\ ~IsContextKeyword(t)
        /\ ~(ObjGet(Root.local_context.v, t).v.k = "object"
                /\ ObjHas(ObjGet(Root.local_context.v, t).v.v, Keyword.Protected))
        /\ t \in DOMAIN ret.v.context.definitions}

\* C21 (context-wide protected default): after an object context with
\* @protected true was processed, every term it defines without an
\* @protected entry of its own is protected in the result, whatever the
\* order of the entries and whether the term was reached first by the loop
\* over the entries or from another term's definition.
C21_ProtectedDefault ==
    ProtectedObjectDone =>
        \A t \in DefaultProtectedTerms : ret.v.context.definitions[t].protected

\* The run was on an object context with an @vocab entry and no entry that
\* is handled before it, and has ended.
VocabObjectDone ==
    /\ Done
    /\ Root.local_context.k = "object"
    /\ ObjHas(Root.local_context.v, Keyword.Vocab)
    /\ \A key \in {Keyword.Version, Keyword.Import, Keyword.Propagate, Keyword.Base} :
          ~ObjHas(Root.local_context.v, key)

\* The @vocab entry of the run and its IRI expansion, document-relative and
\* with vocab true, in the active context given to the run.
VocabEntry == ObjGet(Root.local_context.v, Keyword.Vocab).v
VocabExpanded == expansion_expand_iri(Root.active_context, VocabEntry.v, TRUE, TRUE).term

\* C22 (@vocab handling): a null @vocab removes the vocabulary mapping; a
\* string sets it to its IRI expansion when that is an IRI or a blank node
\* identifier; any other value or expansion fails with InvalidVocabMapping;
\* the vocabulary mapping of a successful result is never an invalid
\* reference.
C22_VocabHandling ==
    /\ VocabObjectDone =>
          IF VocabEntry.k = "null"
          THEN ret.k = "ok" => ret.v.context.vocabulary = None
          ELSE IF VocabEntry.k = "string" /\ VocabExpanded.k \in {"iri", "blank"}
               THEN ret.k = "ok" => ret.v.context.vocabulary = Some(VocabExpanded)
               ELSE ret = Err("InvalidVocabMapping")
    /\ (Done /\ ret.k = "ok" /\ IsSome(ret.v.context.vocabulary)) =>
          ret.v.context.vocabulary.v.k # "invalid"

\* The URLs of the remote contexts whose loading is in progress at frame
\* c: those the process_context calls up to c are loading or processing,
\* outermost first.
LoadingInProgress(c) ==
    LET frames == SelectSeq([m \in 1..c |-> m],
                            LAMBDA m : /\ stack[m].fn = "process_context"
                                       /\ stack[m].pc \in {"load", "after_remote"})
    IN  [x \in 1..Len(frames) |-> stack[frames[x]].pending]

\* C23 (the remote-contexts stack is the chain of ancestors): at every
\* point the stack of a process_context call holds exactly the URLs whose
\* loading is in progress; a URL referred to again from a sibling position,
\* after its processing has returned, is not a cycle: its context is
\* applied again.
C23_StackIsAncestorChain ==
    /\ \A c \in ProcessContextCalls :
          stack[c].pc # "start" => stack[c].remote_contexts = LoadingInProgress(c)
    /\ (Done /\ Root.local_context = SiblingContexts[1]) =>
          /\ ret.k = "ok"
          /\ MapsTo(ret.v.context, TermName, IriB)

\* The run was on one of the contexts that define `name` as a reverse
\* property, and has ended; the definition given, one of its entries, and
\* the IRI expansion of its @reverse string (vocab, not document-relative).
ReverseDone ==
    Done /\ \E n \in 1..Len(ReverseContexts) : Root.local_context = ReverseContexts[n]
ReverseGiven == Root.local_context.v[1].val.v
ReverseEntry(key) == ObjGet(ReverseGiven, key)
ReverseExpanded ==
    expansion_expand_iri(Root.active_context, ReverseEntry(Keyword.Reverse).v.v, FALSE, TRUE).term

\* The @container entry of a reverse property is absent, null, @set or
\* @index.
ReverseContainerAllowed ==
    \/ IsNone(ReverseEntry(Keyword.Container))
    \/ ReverseEntry(Keyword.Container).v \in {JNull, JStr(Keyword.Set), JStr(Keyword.Index)}

\* The run has succeeded and `name` is a reverse property with the
\* expanded @reverse value, and nothing of the later entries.
ReverseCommitted ==
    /\ ret.k = "ok"
    /\ TermName \in DOMAIN ret.v.context.definitions
    /\ ret.v.context.definitions[TermName].reverse_property
    /\ ret.v.context.definitions[TermName].value = Some(ReverseExpanded)
    /\ ret.v.context.definitions[TermName].language = None
    /\ ~ret.v.context.definitions[TermName].prefix

\* The step is the return of define from its @reverse entry with success.
ReverseReturnsOk ==
    /\ Len(stack) > 1
    /\ stack[Len(stack)].fn = "define" /\ stack[Len(stack)].pc = "after_reverse"
    /\ Len(stack') = Len(stack) - 1
    /\ ret'.k = "ok"

\* What define leaves in its caller's `defined` and active context when it
\* returns from the @reverse entry.
ReverseLeavesDefined ==
    ReverseReturnsOk =>
        LET term == stack[Len(stack)].term
            owner == OwnerIndex(SubSeq(stack, 1, Len(stack)))
        IN  /\ DefinedEntry(stack'[owner].defined, term) = "defined"
            /\ term \in DOMAIN stack'[owner].result.definitions
            /\ stack'[owner].result.definitions[term].reverse_property

\* C24 as stated (reverse term definitions): @reverse with @id or @nest
\* fails with InvalidReverseProperty; so does a @container other than null,
\* @set or @index; a @reverse that is no string or expands to no IRI or
\* blank node identifier fails with InvalidIriMapping; otherwise define
\* commits the definition with reverse_property true, sets defined[term]
\* and returns without looking at the later entries.
C24_ReverseAsStated ==
    /\ [](ReverseDone =>
            IF IsSome(ReverseEntry(Keyword.Id)) \/ IsSome(ReverseEntry(Keyword.Nest))
            THEN ret = Err("InvalidReverseProperty")
            ELSE IF \/ ReverseEntry(Keyword.Reverse).v.k # "string"
                    \/ ReverseExpanded.k \notin {"iri", "blank"}
                 THEN ret = Err("InvalidIriMapping")
            ELSE IF ~ReverseContainerAllowed THEN ret = Err("InvalidReverseProperty")
            ELSE ReverseCommitted)
    /\ [][ReverseLeavesDefined]_vars

\* C24 (reverse term definitions): as stated, except that a @reverse string
\* of the form of a keyword is no error: define raises a KeywordLikeValue
\* warning and returns successfully without defining the term.
C24_ReverseDefinitions ==
    /\ [](ReverseDone =>
            IF IsSome(ReverseEntry(Keyword.Id)) \/ IsSome(ReverseEntry(Keyword.Nest))
            THEN ret = Err("InvalidReverseProperty")
            ELSE IF ReverseEntry(Keyword.Reverse).v.k # "string"
                 THEN ret = Err("InvalidIriMapping")
            ELSE IF is_keyword_like(ReverseEntry(Keyword.Reverse).v.v)
                 THEN /\ ret.k = "ok"
                      /\ TermName \notin DOMAIN ret.v.context.definitions
                      /\ ret.v.warnings =
                            <<Warning("KeywordLikeValue", ReverseEntry(Keyword.Reverse).v.v)>>
            ELSE IF ReverseExpanded.k \notin {"iri", "blank"}
                 THEN ret = Err("InvalidIriMapping")
            ELSE IF ~ReverseContainerAllowed THEN ret = Err("InvalidReverseProperty")
            ELSE ReverseCommitted)
    /\ [][ReverseLeavesDefined]_vars

\* A reverse property with an @index container was committed, and a run
\* with an @list container was refused.
C24_Witness ==
    /\ ReverseDone
    /\ Root.local_context = ReverseContexts[6]
    /\ ReverseCommitted
    /\ ret.v.context.definitions[TermName].container = "Index"

\* A definition with @reverse and @id was refused.
C24_WitnessRefused ==
    /\ ReverseDone
    /\ Root.local_context = ReverseContexts[3]
    /\ ret = Err("InvalidReverseProperty")

\* The step is the call of process_full on a dereferenced context: the
\* running process_context call has awaited the loader.
CallsRemoteContext ==
    /\ Now("process_context", "load")
    /\ Len(stack') = Len(stack) + 1

\* C25 (remote contexts are processed with fixed options): the processing
\* of a dereferenced context runs with override_protected false and
\* propagate true and the caller's processing mode, on the result so far,
\* with the URL of the loaded document as base URL and a copy of the
\* caller's remote-contexts stack, which holds the referenced URL.
C25_RemoteContextOptions ==
    [][CallsRemoteContext =>
          LET caller == stack[Len(stack)]
              callee == stack'[Len(stack')]
          IN  /\ callee.fn = "process_full"
              /\ callee.options =
                    Options(caller.options.processing_mode, FALSE, TRUE)
              /\ callee.base_url = Some(load_context(caller.pending).v.url)
              /\ callee.remote_contexts = caller.remote_contexts
              /\ ProcessingStack_cycle(callee.remote_contexts, caller.pending)
              /\ callee.active_context = caller.result
              /\ callee.local_context = load_context(caller.pending).v.context]_vars

\* A remote context is being processed for a caller that was given
\* override_protected true and propagate false.
C25_Witness ==
    /\ Len(stack) >= 3
    /\ stack[2].fn = "process_context" /\ stack[2].pc = "after_remote"
    /\ stack[2].options.override_protected /\ ~stack[2].options.propagate
    /\ stack[3].fn = "process_full"
    /\ ~stack[3].options.override_protected /\ stack[3].options.propagate
    /\ stack[3].base_url = Some(stack[2].pending)
    /\ stack[3].base_url # stack[2].base_url

\* The step takes a process_context call through its steps 1 to 3, and the
\* call goes on to its items.
StartsItems ==
    /\ Len(stack) > 0
    /\ stack[Len(stack)].fn = "process_context" /\ stack[Len(stack)].pc = "start"
    /\ Len(stack') >= Len(stack)
    /\ stack'[Len(stack)].pc # "start"

\* The propagate flag in force for a call: the boolean @propagate entry of
\* a local context that is an object, the option otherwise.
PropagateOf(f) ==
    IF f.local_context.k = "object" /\ ObjHas(f.local_context.v, Keyword.Propagate)
    THEN ObjGet(f.local_context.v, Keyword.Propagate).v.v
    ELSE f.options.propagate

\* The @propagate values of the object contexts of a local context: of the
\* object itself, or of the objects in the array.
PropagateValues(local_context) ==
    LET items == as_array(local_context)
    IN  {ObjGet(items[n].v, Keyword.Propagate).v :
            n \in {m \in 1..Len(items) :
                      items[m].k = "object" /\ ObjHas(items[m].v, Keyword.Propagate)}}

\* C26 (previous-context chaining): with propagate false and no previous
\* context in the cloned result, the previous context becomes the input
\* active context; a previous context that is there is kept; with
\* propagate true nothing is set; a non-boolean @propagate fails with
\* InvalidPropagateValue and any @propagate in 1.0 mode with
\* InvalidContextEntry.
C26_PreviousContext ==
    /\ [][StartsItems =>
            LET f == stack[Len(stack)]
                g == stack'[Len(stack)]
            IN  g.history[1].previous_context =
                    IF ~PropagateOf(f) /\ IsNone(f.active_context.previous_context)
                    THEN Some(f.active_context)
                    ELSE f.active_context.previous_context]_vars
    /\ []((Done /\ \E n \in 1..Len(PropagateContexts) :
                       /\ Root.local_context = PropagateContexts[n]
                       /\ PropagateValues(PropagateContexts[n]) # {}) =>
            IF Root.options.processing_mode = "1.0"
            THEN ret = Err("InvalidContextEntry")
            ELSE IF \E v \in PropagateValues(Root.local_context) : v.k # "bool"
                 THEN ret = Err("InvalidPropagateValue")
                 ELSE ret.k = "ok")

\* The run was on a definition of t with a scoped context, alone or after
\* the protected definition of `name`, and has ended.
ScopedDone ==
    Done /\ \E n \in 1..Len(ScopedContexts) : Root.local_context = ScopedContexts[n]

\* The scoped context of the run.
ScopedGiven ==
    LET items == as_array(Root.local_context)
    IN  ObjGet(items[Len(items)].v[1].val.v, Keyword.Context).v

\* The run has succeeded: t holds the raw scoped context and the base URL,
\* and the result has nothing of the scoped context.
ScopedStored ==
    /\ ret.k = "ok"
    /\ TermT \in DOMAIN ret.v.context.definitions
    /\ ret.v.context.definitions[TermT].context = Some(ScopedGiven)
    /\ ret.v.context.definitions[TermT].base_url = Root.base_url
    /\ ret.v.context.base_iri = Root.active_context.base_iri
    /\ ret.v.context.vocabulary = None
    /\ ret.v.context.default_language = None
    /\ ret.v.context.default_base_direction = None
    /\ DOMAIN ret.v.context.definitions \subseteq {TermT, TermName}
    /\ TermName \in DOMAIN ret.v.context.definitions =>
          /\ Root.local_context = ScopedContexts[6]
          /\ ret.v.context.definitions[TermName].value = Some(TermIri(IriA))
          /\ ret.v.context.definitions[TermName].protected

\* The step is the call of context processing on a scoped context.
CallsScoped ==
    /\ Len(stack) > 1
    /\ stack[Len(stack)].fn = "define"
    /\ Len(stack') = Len(stack) + 1
    /\ stack'[Len(stack)].pc = "after_scoped"

\* What the call on a scoped context is given.
ScopedCall ==
    CallsScoped =>
        LET f == stack[Len(stack)]
            callee == stack'[Len(stack')]
        IN  /\ callee.fn = "process_context"
            /\ callee.options = with_override(f.options)
            /\ callee.options.override_protected
            /\ callee.local_context = WrappedValue_get(f.value, Keyword.Context).v
            /\ callee.active_context = OwnerOf(Len(stack)).result
            /\ callee.base_url = f.base_url

\* The run on the scoped context has returned to define: an error becomes
\* InvalidScopedContext; otherwise the active context is as it was when
\* the run was called, but for the definition of the term being defined.
ScopedReturn ==
    Now("define", "after_scoped") =>
        LET f == stack[Len(stack)]
            o == OwnerIndex(stack)
        IN  IF ret.k = "err"
            THEN Len(stack') = Len(stack) - 1 /\ ret' = Err("InvalidScopedContext")
            ELSE /\ [stack'[o].result EXCEPT !.definitions = <<>>] =
                        [stack[o].result EXCEPT !.definitions = <<>>]
                 /\ \A t \in (DOMAIN stack[o].result.definitions
                                 \cup DOMAIN stack'[o].result.definitions) \ {f.term} :
                       /\ t \in DOMAIN stack[o].result.definitions
                       /\ t \in DOMAIN stack'[o].result.definitions
                       /\ stack'[o].result.definitions[t] = stack[o].result.definitions[t]
                 /\ (Len(stack') = Len(stack) - 1 /\ ret'.k = "ok") =>
                       /\ stack'[o].result.definitions[f.term].context =
                              WrappedValue_get(f.value, Keyword.Context)
                       /\ stack'[o].result.definitions[f.term].base_url = f.base_url

\* While the run on a scoped context is going on, the active context of
\* define is the one the run was given.
ScopedRunLeavesActiveContext ==
    \A n \in WaitingDefines :
        stack[n].pc = "after_scoped" =>
            OwnerOf(n).result = stack[n + 1].active_context

\* C27 as stated (scoped context validation): a term definition with an
\* @context entry has context processing run on it; the run either fails,
\* which is reported as InvalidScopedContext, or succeeds, and then the raw
\* context and the base URL are in the definition and nothing of the
\* scoped context is in the active context.
C27_ScopedAsStated ==
    ScopedDone => (ret = Err("InvalidScopedContext") \/ ScopedStored)

\* C27 (scoped context validation): in mode 1.1 the statement above holds,
\* the run being given override_protected true; in mode 1.0 a term
\* definition with an @context entry fails with InvalidTermDefinition and
\* no context processing is run.
C27_ScopedContext ==
    /\ [](ScopedDone =>
            IF Root.options.processing_mode = "1.0"
            THEN ret = Err("InvalidTermDefinition") /\ loads = <<>>
            ELSE ret = Err("InvalidScopedContext") \/ ScopedStored)
    /\ []((ScopedDone /\ Root.options.processing_mode = "1.1") =>
            (ret.k = "ok" <=> Root.local_context \in
                {ScopedContexts[1], ScopedContexts[3], ScopedContexts[6], ScopedContexts[7]}))
    /\ [][ScopedCall]_vars
    /\ [][ScopedReturn]_vars
    /\ []ScopedRunLeavesActiveContext
    /\ [][CallsScoped => stack[Len(stack)].options.processing_mode = "1.1"]_vars

\* The scoped context that sets a term, a vocabulary mapping, a base IRI
\* and a default language was validated and stored.
C27_Witness ==
    /\ ScopedDone
    /\ Root.local_context = ScopedContexts[1]
    /\ ScopedStored

\* A scoped context redefined a protected term and was accepted.
C27_WitnessOverride ==
    /\ ScopedDone
    /\ Root.local_context = ScopedContexts[6]
    /\ ~Root.options.override_protected
    /\ ScopedStored

\* The step is the return of define with the definition of its term set in
\* the active context.
CommitsTerm ==
    /\ Len(stack) > 1
    /\ stack[Len(stack)].fn = "define"
    /\ Len(stack') = Len(stack) - 1
    /\ ret'.k = "ok"
    /\ Len(stack'[OwnerIndex(stack)].commits) = Len(stack[OwnerIndex(stack)].commits) + 1

\* The term of that step, what the local context gives for it, and the
\* definition committed.
CommittedTerm == stack[Len(stack)].term
CommittedGiven == LocalContextObject_get(stack[OwnerIndex(stack)].context, CommittedTerm).v
CommittedDefinition == stack'[OwnerIndex(stack)].result.definitions[CommittedTerm]

\* The definition was given as a map whose @prefix entry is true.
PrefixEntryTrue ==
    CommittedGiven.k = "object" /\ ObjGet(CommittedGiven.v, Keyword.Prefix) = Some(JBool(TRUE))

\* The definition was given as a plain string, for a term with neither ":"
\* nor "/", and the IRI mapping is a blank node identifier or an IRI that
\* ends in a gen-delim.
SimpleTermPrefix ==
    /\ CommittedGiven.k = "string"
    /\ ~Contains(CommittedTerm, ":") /\ ~Contains(CommittedTerm, "/")
    /\ IsSome(CommittedDefinition.value)
    /\ \/ CommittedDefinition.value.v.k = "blank"
       \/ /\ CommittedDefinition.value.v.k = "iri"
          /\ CommittedDefinition.value.v.v[Len(CommittedDefinition.value.v.v)]
                \in {":", "/", "?", "#", "[", "]", "@"}

\* A compact IRI whose prefix was defined by a map without @prefix is not
\* expanded through that term; with @prefix true, or a plain string ending
\* in a gen-delim, it is.
PrefixUse ==
    (Done /\ ret.k = "ok") =>
        /\ Root.local_context = PrefixContexts[1] => MapsTo(ret.v.context, TermT, TermPX)
        /\ Root.local_context = PrefixContexts[2] => MapsTo(ret.v.context, TermT, IriPX)
        /\ Root.local_context = PrefixContexts[3] => MapsTo(ret.v.context, TermT, IriPX)

\* C28 as stated (prefix flag): the committed definition has prefix true
\* exactly when its @prefix entry is true, or it was given as a plain
\* string for a term without ":" and "/" and its IRI mapping is a blank
\* node identifier or ends in a gen-delim; a term defined by a map without
\* @prefix is not used as a prefix in IRI expansion.
C28_PrefixAsStated ==
    /\ [][CommitsTerm =>
            (CommittedDefinition.prefix <=> (PrefixEntryTrue \/ SimpleTermPrefix))]_vars
    /\ []PrefixUse

\* C28 (prefix flag): as stated, for definitions that are not reverse
\* properties and plain strings that differ from their term; a reverse
\* property and a term defined by the string of the term itself have
\* prefix false.
C28_PrefixFlag ==
    /\ [][CommitsTerm =>
            (CommittedDefinition.prefix <=>
                \/ PrefixEntryTrue /\ ~ObjHas(CommittedGiven.v, Keyword.Reverse)
                \/ SimpleTermPrefix /\ CommittedGiven.v # CommittedTerm)]_vars
    /\ []PrefixUse

\* A plain string ending in "/" has made its term a prefix, and a compact
\* IRI was expanded through it.
C28_Witness ==
    /\ Done /\ ret.k = "ok"
    /\ Root.local_context = PrefixContexts[3]
    /\ ret.v.context.definitions[TermP].prefix
    /\ MapsTo(ret.v.context, TermT, IriPX)

\* A map without @prefix has left its term no prefix, and the compact IRI
\* was taken for an IRI of its own.
C28_WitnessMap ==
    /\ Done /\ ret.k = "ok"
    /\ Root.local_context = PrefixContexts[1]
    /\ ~ret.v.context.definitions[TermP].prefix
    /\ MapsTo(ret.v.context, TermT, TermPX)

\* The step is the return of a call of define that worked on the definition
\* of its term: the term was not defined when the call was entered.
DefineReturns ==
    /\ Len(stack) > 1
    /\ stack[Len(stack)].fn = "define"
    /\ \/ stack[Len(stack)].pc # "enter"
       \/ DefinedEntry(stack[OwnerIndex(stack)].defined, stack[Len(stack)].term) = "absent"
    /\ Len(stack') = Len(stack) - 1

\* The @id of the definition the local context gives for the term of that
\* call: the string itself, or the @id entry of the map.
GivenId ==
    LET given == LocalContextObject_get(stack[OwnerIndex(stack)].context,
                                        stack[Len(stack)].term)
    IN  IF IsNone(given) THEN None
        ELSE IF given.v.k = "string" THEN Some(given.v)
        ELSE IF given.v.k = "object" THEN ObjGet(given.v.v, Keyword.Id)
        ELSE None

\* The term is in the form of a compact or relative IRI and its definition
\* has an @id different from it.
CompactTermWithId ==
    /\ \/ contains_between_boundaries(stack[Len(stack)].term, ":")
       \/ Contains(stack[Len(stack)].term, "/")
    /\ IsSome(GivenId)
    /\ as_str(GivenId.v) # Some(stack[Len(stack)].term)

\* The term expands, in the active context as it is when define returns,
\* to the IRI mapping that the step commits.
TermAgreesWithId ==
    LET term == stack[Len(stack)].term
        before == stack[OwnerIndex(stack)].result
        after == stack'[OwnerIndex(stack)].result
    IN  /\ term \in DOMAIN after.definitions
        /\ after.definitions[term].value =
              Some(expansion_expand_iri(before, term, FALSE, TRUE).term)

\* The scenarios where the term and its @id disagree fail with
\* InvalidIriMapping; the one where they agree succeeds.
CompactTermOutcomes ==
    Done =>
        /\ Root.local_context \in {CompactTermContexts[2], CompactTermContexts[3],
                                   CompactTermContexts[7]}
              => ret = Err("InvalidIriMapping")
        /\ Root.local_context \in {CompactTermContexts[1], CompactTermContexts[6],
                                   CompactTermContexts[11]}
              => ret.k = "ok"

C29_WitnessRefused ==
    /\ Done /\ ret = Err("InvalidIriMapping")
    /\ Root.local_context = CompactTermContexts[2]

\* The step is the return of expand_iri with a term, for a value that is
\* neither a keyword nor keyword-like.
ExpandIriGivesTerm ==
    /\ Len(stack) > 1
    /\ stack[Len(stack)].fn = "expand_iri"
    /\ ~is_keyword_like(stack[Len(stack)].value)
    /\ Len(stack') = Len(stack) - 1
    /\ ret'.k = "ok"

\* The value being expanded, the active context it is expanded in, and
\* the term definitions of the whole value and of its prefix.
ExpandedValue == stack[Len(stack)].value
ExpandedIn == stack[OwnerIndex(stack)].result
WholeDefinition == Context_get(ExpandedIn, ExpandedValue)
FirstColon == Find(ExpandedValue, ":")
ValuePrefix == SubSeq(ExpandedValue, 1, FirstColon - 1)
ValueSuffix == SubSeq(ExpandedValue, FirstColon + 1, Len(ExpandedValue))
PrefixDefinition == Context_get(ExpandedIn, ValuePrefix)

\* The readings of the value: by its own term definition, as a blank node
\* identifier or an IRI with an authority, and through its prefix.
WholeReading == stack[Len(stack)].vocab /\ IsSome(WholeDefinition)
AsItIsReading ==
    FirstColon > 1 /\ (ValuePrefix = <<"_">> \/ StartsWith(ValueSuffix, <<"/", "/">>))
PrefixReading ==
    /\ FirstColon > 1
    /\ IsSome(PrefixDefinition)
    /\ PrefixDefinition.v.prefix
    /\ IsSome(PrefixDefinition.v.value)

\* What expand_iri returns when no term definition is used: the value if
\* it is an IRI, else the vocabulary mapping before the value, else an
\* invalid reference.
WithoutTerms ==
    IF FirstColon > 1 /\ IsIri(ExpandedValue) THEN TermIri(ExpandedValue)
    ELSE IF stack[Len(stack)].vocab /\ IsSome(ExpandedIn.vocabulary)
         THEN IF IsRef(ExpandedIn.vocabulary.v)
              THEN TermOfConcat(TermStr(ExpandedIn.vocabulary.v) \o ExpandedValue)
              ELSE TermInvalid(ExpandedValue)
    ELSE TermInvalid(ExpandedValue)

\* The term each reading gives, the first reading that applies winning.
ExpandIriPrecedence ==
    IF WholeReading
    THEN ret'.v = (IF IsSome(WholeDefinition.v.value) THEN WholeDefinition.v.value.v
                   ELSE TermInvalid(ExpandedValue))
    ELSE IF IsSome(WholeDefinition) /\ IsSome(WholeDefinition.v.value)
            /\ WholeDefinition.v.value.v.k = "keyword"
         THEN ret'.v = WholeDefinition.v.value.v
    ELSE IF AsItIsReading
         THEN IF ValuePrefix = <<"_">> THEN ret'.v = TermBlank(ValueSuffix)
              ELSE IsIri(ExpandedValue) => ret'.v = TermIri(ExpandedValue)
    ELSE IF PrefixReading
         THEN ret'.v = TermOfConcat(TermStr(PrefixDefinition.v.value.v) \o ValueSuffix)
    ELSE ret'.v = WithoutTerms

\* expand_iri of a value with prefix "_" or a suffix that begins with "//"
\* calls define for the value only, never for the prefix.
PrefixNotConsulted ==
    (/\ Len(stack) > 1
     /\ stack[Len(stack)].fn = "expand_iri"
     /\ AsItIsReading
     /\ Len(stack') = Len(stack) + 1
     /\ stack'[Len(stack')].fn = "define")
    => stack'[Len(stack')].term = ExpandedValue

\* The outcome of each scenario where readings compete.
PrecedenceOutcomes ==
    (Done /\ ret.k = "ok") =>
        /\ Root.local_context = PrecedenceContexts[1] => MapsTo(ret.v.context, TermT, IriXT)
        /\ Root.local_context = PrecedenceContexts[2] => MapsTo(ret.v.context, TermT, IriPX)
        /\ Root.local_context = PrecedenceContexts[3] => MapsTo(ret.v.context, TermT, IriPXY)
        /\ Root.local_context = PrecedenceContexts[4] =>
              /\ TermT \in DOMAIN ret.v.context.definitions
              /\ ret.v.context.definitions[TermT].value = Some(TermBlank(<<"x">>))
        /\ Root.local_context = PrecedenceContexts[5] => MapsTo(ret.v.context, TermT, IriA)
        /\ Root.local_context = PrecedenceContexts[6] => MapsTo(ret.v.context, TermT, TermPX)
        /\ Root.local_context = PrecedenceContexts[7] =>
              MapsTo(ret.v.context, TermT, IriV \o TermA)

\* C30 (precedence in expand_iri): with vocab set the term definition of
\* the whole value wins over the compact IRI reading and the vocabulary
\* mapping; the value is split at its first colon; prefix "_" gives a blank
\* node identifier and a suffix that begins with "//" gives the value as an
\* IRI, the prefix being neither defined nor looked up; the prefix reading
\* applies only when the prefix has a term definition with the prefix flag
\* and an IRI mapping.
C30_ExpandIriPrecedence ==
    /\ [][ExpandIriGivesTerm => ExpandIriPrecedence]_vars
    /\ [][PrefixNotConsulted]_vars
    /\ []PrecedenceOutcomes

\* A value in the form of a compact IRI was expanded by its own term
\* definition although its prefix is a term mapped elsewhere.
C30_Witness ==
    /\ Done /\ ret.k = "ok"
    /\ Root.local_context = PrecedenceContexts[2]
    /\ MapsTo(ret.v.context, TermP, IriB)
    /\ MapsTo(ret.v.context, TermT, IriPX)

\* A value with two colons was expanded through its prefix, split at the
\* first colon.
C30_WitnessFirstColon ==
    /\ Done /\ ret.k = "ok"
    /\ Root.local_context = PrecedenceContexts[3]
    /\ MapsTo(ret.v.context, TermT, IriPXY)

\* "_:x" and "h://a/" were returned as they are although "_" and "h" are
\* terms with the prefix flag.
C30_WitnessAsItIs ==
    /\ Done /\ ret.k = "ok"
    /\ Root.local_context \in {PrecedenceContexts[4], PrecedenceContexts[5]}
    /\ \A t \in {TermUnderscore, TermH} :
          t \in DOMAIN ret.v.context.definitions => ret.v.context.definitions[t].prefix

\* What a step adds to a property comes after what the property held, and
\* each object added has no equivalent object before it.
AddsOnlyNewObjects ==
    \A prop \in DOMAIN properties' :
        LET old == Properties_get(properties, prop)
            new == properties'[prop]
        IN  /\ Len(new) >= Len(old)
            /\ SubSeq(new, 1, Len(old)) = old
            /\ \A n \in (Len(old) + 1)..Len(new) :
                   \A m \in 1..(n - 1) : ~equivalent(new[m].stripped, new[n].stripped)

\* C31 (deduplicating inserts): from a Properties value without two
\* equivalent objects under one property, insert_unique, insert_all_unique,
\* insert_all_unique_stripped, extend_unique and remove keep it so, also
\* when one call passes equivalent objects; an object is added only if the
\* property holds no equivalent object.
C31_UniqueInserts ==
    /\ []NoEquivalentObjects(properties)
    /\ [][AddsOnlyNewObjects]_vars

\* One call has passed two equivalent objects, and the property holds one
\* of them.
C31_Witness ==
    /\ last_call = CallOf("insert_all_unique_stripped", PropQ, <<ObjectA, ObjectAIndexed>>)
    /\ Len(Properties_get(properties, PropQ)) = 1
    /\ equivalent(properties[PropQ][1].stripped, ObjectAIndexed)

\* insert_unique was given an object equivalent to one the property held,
\* with another index, and the property holds the first only.
C31_WitnessKept ==
    /\ last_call = CallOf("insert_unique", PropP, <<ObjectAIndexed>>)
    /\ Properties_get(properties, PropP) = <<Stripped(ObjectA)>>

\* C38 (no property without objects): in every Properties value built from
\* the empty map by insert, insert_unique, insert_all, insert_all_unique,
\* extend and remove, contains(p) holds exactly when get(p) yields an
\* object, and len() and is_empty() count the properties that have objects.
C38_NoEmptyProperty ==
    /\ \A prop \in Props :
           Properties_contains(properties, prop) <=> Len(Properties_get(properties, prop)) > 0
    /\ Properties_len(properties) =
           Cardinality({prop \in Props : Len(Properties_get(properties, prop)) > 0})
    /\ Properties_is_empty(properties) <=>
           \A prop \in Props : Len(Properties_get(properties, prop)) = 0

\* The call of expand_literal has produced a value object.
ValueProduced ==
    /\ expanded.result.k = "ok"
    /\ expanded.result.v.k = "Value"

\* The definition of the active property, its type mapping, and the
\* language and direction a string of that property takes: the mapping of
\* the definition when it has one, null included, else the default of the
\* active context.
PropertyDefinition ==
    IF IsSome(literal.active_property)
          /\ literal.active_property.v \in DOMAIN literal.active_context.definitions
    THEN Some(literal.active_context.definitions[literal.active_property.v])
    ELSE None
PropertyTyped ==
    /\ IsSome(PropertyDefinition)
    /\ IsSome(PropertyDefinition.v.typ)
    /\ PropertyDefinition.v.typ.v.k \notin {"Id", "Vocab", "None"}
PropertyLanguage ==
    IF IsSome(PropertyDefinition) /\ IsSome(PropertyDefinition.v.language)
    THEN IF PropertyDefinition.v.language.v = NullableNull THEN None
         ELSE Some(PropertyDefinition.v.language.v.v)
    ELSE literal.active_context.default_language
PropertyDirection ==
    IF IsSome(PropertyDefinition) /\ IsSome(PropertyDefinition.v.direction)
    THEN IF PropertyDefinition.v.direction.v = NullableNull THEN None
         ELSE Some(PropertyDefinition.v.direction.v.v)
    ELSE literal.active_context.default_base_direction

\* C32 (value object shapes): a value object that expand_literal produces
\* is a language-tagged string, with a language or a direction and no
\* datatype, or a literal with at most a datatype; it has a datatype
\* exactly when the type mapping of the property is none of absent, @id,
\* @vocab and @none; a string without datatype has the language and the
\* direction of the term's own mappings, an explicit null giving none, and
\* of the defaults of the active context otherwise.
C32_ValueShapes ==
    ValueProduced =>
        LET value == expanded.result.v.v
        IN  /\ value.k \in {"LangString", "Literal"}
            /\ value.k = "LangString" =>
                   /\ IsSome(value.v.language) \/ IsSome(value.v.direction)
                   /\ IsNone(value.v.ty)
                   /\ value.v.data.k \in {"Expanded", "Inferred"}
            /\ value.k = "Literal" => IsNone(value.v.language) /\ IsNone(value.v.direction)
            /\ IsSome(value.v.ty) <=> PropertyTyped
            /\ (IsNone(value.v.ty) /\ LiteralIsString) =>
                   /\ value.v.language = PropertyLanguage
                   /\ value.v.direction = PropertyDirection

\* A string of a term with an explicit null language was expanded without
\* language in an active context with a default language.
C32_Witness ==
    /\ ValueProduced
    /\ LiteralIsString
    /\ IsSome(PropertyDefinition)
    /\ PropertyDefinition.v.language = Some(NullableNull)
    /\ IsSome(literal.active_context.default_language)
    /\ IsNone(expanded.result.v.v.v.language)

\* A value of a term with an IRI type mapping was given that datatype.
C32_WitnessTyped ==
    /\ ValueProduced
    /\ PropertyTyped
    /\ expanded.result.v.v.v.ty = PropertyDefinition.v.typ

\* C33 (define never aborts abnormally): whatever the local context gives
\* for a term, a null @id with @prefix, @container, @index or @nest
\* included, no call ends in a panic: a finished run has returned success
\* or an error code.
C33_DefineNeverPanics ==
    /\ ret.k # "panic"
    /\ Done => ret.k \in {"ok", "err"}

\* The step is a successful return of define for a term that is a key of
\* the local context.
DefineSucceeds ==
    /\ Len(stack) > 1
    /\ stack[Len(stack)].fn = "define"
    /\ Len(stack') = Len(stack) - 1
    /\ ret'.k = "ok"
    /\ IsSome(LocalContextObject_get(stack[OwnerIndex(stack)].context, stack[Len(stack)].term))

\* C34 (CyclicIriMapping only for a cycle): when define returns success for
\* a term of the local context the term is marked defined, none is left
\* being defined; and the contexts without cyclic dependency whose terms
\* are skipped for a keyword-like name, @id or @reverse do not fail with
\* CyclicIriMapping.
C34_CyclicOnlyForCycles ==
    /\ [][DefineSucceeds =>
            DefinedEntry(stack'[OwnerIndex(stack)].defined, stack[Len(stack)].term)
                = "defined"]_vars
    /\ [](Done /\ (\E n \in 1..Len(SkippedContexts) : Root.local_context = SkippedContexts[n])
             => ret # Err("CyclicIriMapping"))

\* The machine after the step Next takes from M.
Resume(M) ==
    LET fn == Top(M).fn
        pc == Top(M).pc
    IN  CASE fn = "process_full" /\ pc = "enter" -> Run(ProcessFullEnter(M))
          [] fn = "process_full" /\ pc = "after" -> Run(ProcessFullAfter(M))
          [] fn = "process_context" /\ pc = "start" -> Run(ProcessStart(M))
          [] fn = "process_context" /\ pc = "item" -> Run(ProcessItem(M))
          [] fn = "process_context" /\ pc = "load" -> Run(LoadRemoteContext(M))
          [] fn = "process_context" /\ pc = "after_remote" -> Run(AfterRemoteContext(M))
          [] fn = "process_context" /\ pc = "import" -> Run(ProcessAfterImport(M))
          [] fn = "process_context" /\ pc = "after_define" -> Run(ProcessAfterDefine(M))
          [] fn = "define" /\ pc = "enter" -> Run(DefineEnter(M))
          [] fn = "define" /\ pc = "after_type" -> Run(DefineAfterType(M))
          [] fn = "define" /\ pc = "after_reverse" -> Run(DefineAfterReverse(M))
          [] fn = "define" /\ pc = "after_id" -> Run(DefineAfterId(M))
          [] fn = "define" /\ pc = "after_term_expand" -> Run(DefineAfterTermExpand(M))
          [] fn = "define" /\ pc = "after_prefix" -> Run(DefineAfterPrefix(M))
          [] fn = "define" /\ pc = "after_scoped" -> Run(DefineAfterScoped(M))
          [] fn = "expand_iri" /\ pc = "enter" -> Run(ExpandIriEnter(M))
          [] fn = "expand_iri" /\ pc = "after_define" -> Run(ExpandIriAfterDefine(M))
          [] fn = "expand_iri" /\ pc = "after_prefix" -> Run(ExpandIriAfterPrefix(M))

\* The machine at the end of the run that starts at M.
RECURSIVE Finish(_)
Finish(M) ==
    IF (Len(M.stack) = 1 /\ M.stack[1].pc = "done") \/ Len(M.stack) > MaxFrames THEN M
    ELSE Finish(Resume(M))

\* What process_full returns on a local context, with the active context,
\* base URL and options of the run.
OutcomeOn(local_context) ==
    Finish(Machine(<<ProcessFullFrame(Root.active_context, local_context,
                                      Root.remote_contexts, Root.base_url, Root.options)>>,
                   NoRet, <<>>, <<>>)).ret

\* The object contexts with the entries of `object` in another order.
Reordered(object) ==
    {JObj([n \in 1..Len(object.v) |-> object.v[f[n]]]) :
        f \in {g \in [1..Len(object.v) -> 1..Len(object.v)] :
                  \A m, n \in 1..Len(object.v) : m # n => g[m] # g[n]}}

\* Two outcomes agree: both fail, or both succeed with the same active
\* context.
SameOutcome(r1, r2) ==
    IF r1.k = "ok" THEN r2.k = "ok" /\ r2.v.context = r1.v.context
    ELSE r2.k # "ok"

\* C35 (entry order of an object context): the run on an object context
\* and the run on each reordering of its entries both fail, or both succeed
\* with equal active contexts.
C35_EntryOrderIndependent ==
    (Done /\ Root.local_context.k = "object") =>
        \A reordered \in Reordered(Root.local_context) :
            SameOutcome(ret, OutcomeOn(reordered))

\* The types given to Container::add so far, in order.
AddedTypes == [n \in 1..Len(adds) |-> adds[n].c]

\* The sequences with the items of `iter` in another order.
Reorderings(iter) ==
    {[n \in 1..Len(iter) |-> iter[f[n]]] :
        f \in {g \in [1..Len(iter) -> 1..Len(iter)] :
                  \A m, n \in 1..Len(iter) : m # n => g[m] # g[n]}}

\* C36 (order-independent container building): Container::from on the
\* sequence of types added so far and on each permutation of it both fail,
\* or both succeed with the same Container; while every add has succeeded,
\* Container::from gives the container built by the adds.
C36_ContainerOrderIndependent ==
    /\ (\A n \in 1..Len(adds) : adds[n].ok) => Container_from(AddedTypes) = Ok(container)
    /\ \A permuted \in Reorderings(AddedTypes) :
           IF Container_from(AddedTypes).k = "ok"
           THEN Container_from(permuted) = Container_from(AddedTypes)
           ELSE Container_from(permuted).k = "err"

\* The step is a call of Container::add; its argument and its result.
AddCalled == Len(adds') = Len(adds) + 1
AddArgument == adds'[Len(adds')].c
AddResult == adds'[Len(adds')].ok

\* C40 (add without effect): an add that returns false leaves the container
\* as it was; an add of a type the container already contains returns true
\* and leaves the container as it was; len() is the number of distinct
\* types the container contains.
C40_AddFrame ==
    /\ [][AddCalled =>
            /\ ~AddResult => container' = container
            /\ Container_contains(container, AddArgument) =>
                   AddResult /\ container' = container]_vars
    /\ [](Container_len(container) =
             Cardinality({c \in ContainerTypes : Container_contains(container, c)}))

\* A type was refused and a type already held was added again, and the
\* container still holds what the first two adds gave it.
C40_Witness ==
    /\ Len(adds) = 4
    /\ adds[1] = [c |-> "Language", ok |-> TRUE]
    /\ adds[2] = [c |-> "Set", ok |-> TRUE]
    /\ adds[3] = [c |-> "List", ok |-> FALSE]
    /\ adds[4] = [c |-> "Language", ok |-> TRUE]
    /\ container = "LanguageSet"

---------------------------------------------------------------------------
(* ProcessingStack.                                                        *)

\* The URLs on a stack, the head first.
RECURSIVE UrlsOn(_, _)
UrlsOn(heap, head) ==
    IF head = 0 THEN <<>> ELSE <<heap[head].url>> \o UrlsOn(heap, heap[head].previous)

LastStackCall == stack_calls'[Len(stack_calls')]

Pushed == Len(stack_calls') = Len(stack_calls) + 1 /\ LastStackCall.method = "push"

PushReturn ==
    LET n == LastStackCall.on
        url == LastStackCall.url
    IN  /\ LastStackCall.ok = ~ Head_cycle(arcs, heads[n], url)
        /\ ~ LastStackCall.ok => UrlsOn(arcs', heads'[n]) = UrlsOn(arcs, heads[n])
        /\ LastStackCall.ok =>
              /\ Head_cycle(arcs', heads'[n], url)
              /\ \A u \in StackUrls :
                    Head_cycle(arcs, heads[n], u) => Head_cycle(arcs', heads'[n], u)

OthersKept ==
    \A m \in 1..Len(heads) :
        m # LastStackCall.on => UrlsOn(arcs', heads'[m]) = UrlsOn(arcs, heads[m])

NoUrlTwice ==
    \A n \in 1..Len(heads) :
        LET urls == UrlsOn(arcs, heads[n])
        IN  \A i, j \in 1..Len(urls) : urls[i] = urls[j] => i = j

\* C37: push(url) returns false exactly when cycle(url) held before the call
\* and then leaves the stack as it was; otherwise it returns true, cycle(url)
\* holds afterwards and every URL that was on the stack is still on it; no
\* URL is ever twice on a stack; and a push on one stack leaves every other
\* stack, its clones and the stack it was cloned from, with the same URLs.
C37_ProcessingStack ==
    [][/\ Pushed => PushReturn /\ OthersKept
       /\ NoUrlTwice']_vars

\* A refused push, and an accepted push on a clone whose original still
\* holds a URL of its own.
C37_Witness ==
    /\ \E i \in 1..Len(stack_calls) :
          stack_calls[i].method = "push" /\ ~ stack_calls[i].ok
    /\ \E i, j \in 1..Len(stack_calls) :
          /\ i < j
          /\ stack_calls[i].method = "clone"
          /\ stack_calls[j].method = "push" /\ stack_calls[j].ok
          /\ stack_calls[j].on > 1
          /\ Len(UrlsOn(arcs, heads[stack_calls[i].on])) > 0
          /\ UrlsOn(arcs, heads[stack_calls[j].on]) # UrlsOn(arcs, heads[stack_calls[i].on])

---------------------------------------------------------------------------
(* define for a term the local context does not have.                      *)

\* A step of define from its entry, for a non-empty term that is not a key
\* of the local context and has no entry in defined.
DefinesAbsentTerm ==
    /\ Len(stack) > 1
    /\ stack[Len(stack)].fn = "define"
    /\ stack[Len(stack)].pc = "enter"
    /\ Len(stack[Len(stack)].term) > 0
    /\ DefinedEntry(stack[OwnerIndex(stack)].defined, stack[Len(stack)].term) = "absent"
    /\ IsNone(LocalContextObject_get(stack[OwnerIndex(stack)].context,
                                     stack[Len(stack)].term))

\* The step returns Ok(()) to the caller and changes no frame below it:
\* the active context and defined are as they were.
ReturnsUntouched ==
    /\ Len(stack') = Len(stack) - 1
    /\ stack' = SubSeq(stack, 1, Len(stack) - 1)
    /\ ret' = Ok(Unit)
    /\ warnings' = warnings

\* A step of expand_iri after its define(value) returned Ok, in vocab mode,
\* for a value that is not a key of the local context and has a definition
\* with an IRI mapping in the active context.
ExpandsInheritedTerm ==
    LET f == stack[Len(stack)]
        active == stack[OwnerIndex(stack)].result
    IN  /\ Len(stack) > 1
        /\ f.fn = "expand_iri"
        /\ f.pc = "after_define"
        /\ ret.k = "ok"
        /\ f.vocab
        /\ IsNone(LocalContextObject_get(stack[OwnerIndex(stack)].context, f.value))
        /\ f.value \in DOMAIN active.definitions
        /\ IsSome(active.definitions[f.value].value)

\* The step returns the IRI mapping of the inherited definition.
ReturnsInheritedMapping ==
    LET f == stack[Len(stack)]
        active == stack[OwnerIndex(stack)].result
    IN  /\ Len(stack') = Len(stack) - 1
        /\ ret' = Ok(active.definitions[f.value].value.v)

\* C39: define for a non-empty term that is not a key of the local context
\* and has no entry in defined returns Ok and leaves the active context,
\* the term's inherited definition included, and defined unchanged; and
\* expand_iri, after that define, returns the IRI mapping of the definition
\* the term has in the active context.
C39_AbsentTermInherited ==
    [][/\ DefinesAbsentTerm => ReturnsUntouched
       /\ ExpandsInheritedTerm => ReturnsInheritedMapping]_vars

\* define has returned to expand_iri for a term that the local context does
\* not have and the active context defines.
C39_Witness ==
    /\ Len(stack) > 1
    /\ stack[Len(stack)].fn = "expand_iri"
    /\ stack[Len(stack)].pc = "after_define"
    /\ ret = Ok(Unit)
    /\ stack[Len(stack)].vocab
    /\ IsNone(LocalContextObject_get(stack[OwnerIndex(stack)].context,
                                     stack[Len(stack)].value))
    /\ stack[Len(stack)].value \in DOMAIN stack[OwnerIndex(stack)].result.definitions
    /\ IsSome(stack[OwnerIndex(stack)].result.definitions[stack[Len(stack)].value].value)

\* Context processing is over and a term defined through a term of the
\* active context that the local context does not have maps to the IRI the
\* active context gives.
C39_WitnessResolved ==
    /\ Done
    /\ ret.k = "ok"
    /\ Root.local_context = OrderContexts[6]
    /\ \/ MapsTo(ret.v.context, TermOther, IriA)
       \/ MapsTo(ret.v.context, TermOther, IriB)

=============================================================================
